---- MODULE Spec2Model ----
(***************************************************************************)
(* A state-machine model of package-rewriter's recursive extractor         *)
(* (RewriteRecursive and the methods of RecursiveRewriter).                *)
(*                                                                         *)
(* The source universe (the Go packages that packages.Load can return) is  *)
(* the variable `world`, drawn in Init and never changed.  The rewriter's  *)
(* fields are the variables packages, pendingTypes, processedTypes and     *)
(* modules.  One step of the model is one statement group of               *)
(* RewriteRecursive: the set-up, one iteration of the driver loop, the     *)
(* emission, the manifest patch.                                           *)
(***************************************************************************)
EXTENDS Integers, Sequences, FiniteSets, TLC

\* ------------------------------------------------------------------------
\* Bounds of the generated source universes.

\* The largest number of named-type references in one generated declaration.
MaxRefs == 2

\* the most import declarations of the first file of a resolver universe
MaxImports == 2

\* ------------------------------------------------------------------------
\* Strings (package strings, path/filepath), computed character by character.

Range(s) == {s[i] : i \in DOMAIN s}

CharAt(s, i) == SubSeq(s, i, i)

\* strings.Contains(s, sub), sub non-empty
Contains(s, sub) ==
    \E i \in 0..(Len(s) - Len(sub)) : SubSeq(s, i + 1, i + Len(sub)) = sub

\* strings.HasPrefix / strings.HasSuffix
HasPrefix(s, pre) == Len(s) >= Len(pre) /\ SubSeq(s, 1, Len(pre)) = pre

HasSuffix(s, suf) ==
    Len(s) >= Len(suf) /\ SubSeq(s, Len(s) - Len(suf) + 1, Len(s)) = suf

\* strings.Count(s, c) for a one-character c
Count(s, c) == Cardinality({i \in 1..Len(s) : CharAt(s, i) = c})

\* strings.LastIndex(s, c) for a one-character c, 1-based; 0 when absent
LastIndex(s, c) ==
    LET I == {i \in 1..Len(s) : CharAt(s, i) = c}
    IN  IF I = {} THEN 0 ELSE CHOOSE i \in I : \A j \in I : j <= i

RECURSIVE TrimLeft(_, _)
TrimLeft(s, c) ==
    IF Len(s) > 0 /\ CharAt(s, 1) = c THEN TrimLeft(SubSeq(s, 2, Len(s)), c) ELSE s

RECURSIVE TrimRight(_, _)
TrimRight(s, c) ==
    IF Len(s) > 0 /\ CharAt(s, Len(s)) = c
    THEN TrimRight(SubSeq(s, 1, Len(s) - 1), c)
    ELSE s

\* strings.Trim(s, c)
Trim(s, c) == TrimRight(TrimLeft(s, c), c)

\* strings.Split(s, c) for a one-character c
RECURSIVE Split(_, _)
Split(s, c) ==
    LET I == {i \in 1..Len(s) : CharAt(s, i) = c}
    IN  IF I = {} THEN <<s>>
        ELSE LET i == CHOOSE k \in I : \A j \in I : k <= j
             IN  <<SubSeq(s, 1, i - 1)>> \o Split(SubSeq(s, i + 1, Len(s)), c)

\* strings.Join(parts, sep)
RECURSIVE Join(_, _)
Join(parts, sep) ==
    IF Len(parts) = 0 THEN ""
    ELSE IF Len(parts) = 1 THEN parts[1]
    ELSE parts[1] \o sep \o Join(Tail(parts), sep)

\* strings.ReplaceAll(s, old, new) for a one-character old
RECURSIVE ReplaceAll(_, _, _)
ReplaceAll(s, old, new) ==
    IF Len(s) = 0 THEN ""
    ELSE (IF CharAt(s, 1) = old THEN new ELSE CharAt(s, 1))
         \o ReplaceAll(SubSeq(s, 2, Len(s)), old, new)

\* filepath.Base(path)
Base(path) ==
    IF path = "" THEN "."
    ELSE LET t == TrimRight(path, "/")
         IN  IF t = "" THEN "/"
             ELSE SubSeq(t, LastIndex(t, "/") + 1, Len(t))

\* filepath.Join(a, b) for a cleaned, non-empty a and a slash-free-ended b
PathJoin(a, b) == IF b = "" THEN a ELSE a \o "/" \o b

\* ------------------------------------------------------------------------
\* go/ast type expressions.

Ident(n) == [kind |-> "Ident", Name |-> n]

StarExpr(x) == [kind |-> "StarExpr", X |-> x]

ArrayType(elt) == [kind |-> "ArrayType", Elt |-> elt]

MapType(k, v) == [kind |-> "MapType", Key |-> k, Value |-> v]

\* a field list is a sequence of fields; an embedded field has no names
Field(names, type) == [Names |-> names, Type |-> type]

StructType(fields) == [kind |-> "StructType", Fields |-> fields]

SelectorExpr(x, sel) == [kind |-> "SelectorExpr", X |-> x, Sel |-> sel]

InterfaceType(methods) == [kind |-> "InterfaceType", Methods |-> methods]

FuncType(params, results) ==
    [kind |-> "FuncType", Params |-> params, Results |-> results]

ChanType(v) == [kind |-> "ChanType", Value |-> v]

Ellipsis(elt) == [kind |-> "Ellipsis", Elt |-> elt]

\* a form the walker's switch has no case for (an instantiated generic type)
IndexExpr(x, index) == [kind |-> "IndexExpr", X |-> x, Index |-> index]

\* ast.TypeSpec, ast.GenDecl (Tok == token.TYPE), ast.ImportSpec, ast.File
TypeSpec(name, type) == [Name |-> name, Type |-> type]

GenDecl(doc, specs) == [Doc |-> doc, Specs |-> specs]

\* Name = "" stands for a nil ImportSpec.Name
ImportSpec(name, path) == [Name |-> name, Path |-> path]

File(fname, imports, decls) ==
    [FileName |-> fname, Imports |-> imports, Decls |-> decls]

\* packages.Package: Module = "" stands for a nil Module
Package(name, module, syntax) ==
    [Name |-> name, Module |-> module, Syntax |-> syntax]

\* ------------------------------------------------------------------------
\* Maps (Go maps as functions).

EmptyMap == [k \in {} |-> k]

Put(m, k, v) == [x \in (DOMAIN m) \cup {k} |-> IF x = k THEN v ELSE m[x]]

\* the first element of the iteration order ord that is in the set ok, "" if
\* none: a Go `for k := range m { if ... { found = k; break } }` under the map
\* iteration order ord, ok being the keys that pass the test
FirstIn(ord, ok) ==
    LET I == {i \in 1..Len(ord) : ord[i] \in ok}
    IN  IF I = {} THEN "" ELSE ord[CHOOSE i \in I : \A j \in I : i <= j]

\* ------------------------------------------------------------------------
\* The source universe: what packages.Load returns for each package path.

VARIABLES
    world,          \* package path -> packages.Package (syntax of the sources)
    config,         \* rewriter.Config of the run
    iterOrder       \* the order in which this run's map iterations visit paths

PathP == "a.io/m/p"

PathQ == "b.io/n/q"

PathTime == "time"

PathG == "c.io/g"

PathNone == "d.io/none"

\* the named types a generated declaration may refer to
Targets == <<"P.A", "P.B", "Q.C", "time.Time", "gone">>

\* how package `from` writes a reference to target t
Leaf(from, t) ==
    IF from = PathP
    THEN CASE t = "P.A" -> Ident("A")
           [] t = "P.B" -> Ident("B")
           [] t = "Q.C" -> SelectorExpr(Ident("q"), "C")
           [] t = "time.Time" -> SelectorExpr(Ident("time"), "Time")
           [] OTHER -> SelectorExpr(Ident("q"), "Gone")
    ELSE CASE t = "P.A" -> SelectorExpr(Ident("pa"), "A")
           [] t = "P.B" -> SelectorExpr(Ident("pa"), "B")
           [] t = "Q.C" -> Ident("C")
           [] t = "time.Time" -> SelectorExpr(Ident("time"), "Time")
           [] OTHER -> SelectorExpr(Ident("pa"), "Gone")

\* the k-th reference of a declaration sits in the k-th of these positions
Wrap(k, leaf) ==
    CASE k = 1 -> Field(<<"Ptr">>, StarExpr(leaf))
      [] k = 2 -> Field(<<>>, leaf)
      [] k = 3 -> Field(<<"Items">>, MapType(Ident("string"), ArrayType(leaf)))
      [] k = 4 -> Field(<<"Fn">>, FuncType(<<Field(<<"xs">>, Ellipsis(leaf))>>,
                                           <<Field(<<>>, ChanType(leaf))>>))
      [] OTHER -> Field(<<"Iface">>,
                        InterfaceType(<<Field(<<"M">>,
                            FuncType(<<Field(<<>>, leaf)>>, <<>>))>>))

\* type <name> struct { Name string; <one field per target of refs> }
StructOf(from, refs) ==
    LET ts == SelectSeq(Targets, LAMBDA t : t \in refs)
    IN  StructType(<<Field(<<"Name">>, Ident("string"))>>
                   \o [k \in 1..Len(ts) |-> Wrap(k, Leaf(from, ts[k]))])

TimePackage ==
    Package("time", "",
        <<File("time.go", <<>>,
            <<GenDecl("", <<TypeSpec("Time",
                StructType(<<Field(<<"wall">>, Ident("uint64")),
                             Field(<<"loc">>, StarExpr(Ident("Location")))>>))>>),
              GenDecl("", <<TypeSpec("Location",
                StructType(<<Field(<<"name">>, Ident("string"))>>))>>)>>)>>)

\* The generated universe of graph g (declared type -> set of targets):
\* package p declares A and B, package q (another module) declares C.
GraphWorld(g) ==
    (PathP :> Package("p", "a.io/m",
        <<File("types.go",
            <<ImportSpec("", PathQ), ImportSpec("", PathTime)>>,
            <<GenDecl("A is the root.", <<TypeSpec("A", StructOf(PathP, g["P.A"]))>>),
              GenDecl("", <<TypeSpec("B", StructOf(PathP, g["P.B"]))>>)>>)>>))
    @@ (PathQ :> Package("q", "b.io/n",
        <<File("types.go",
            <<ImportSpec("pa", PathP), ImportSpec("", PathTime)>>,
            <<GenDecl("", <<TypeSpec("C", StructOf(PathQ, g["Q.C"]))>>)>>)>>))
    @@ (PathTime :> TimePackage)

Slots == {"P.A", "P.B", "Q.C"}

Graphs ==
    [Slots -> {refs \in SUBSET Range(Targets) : Cardinality(refs) <= MaxRefs}]

\* package g (no module metadata) declares its types in grouped declarations:
\*   type ( Leaf struct{ Name string }; Extra struct{ Name string } )
\*   type ( Node struct{ Peer *Peer };  Peer struct{ Node *Node } )
GroupedWorld ==
    (PathG :> Package("g", "",
        <<File("g.go", <<>>,
            <<GenDecl("Leaf and Extra.",
                <<TypeSpec("Leaf", StructType(<<Field(<<"Name">>, Ident("string"))>>)),
                  TypeSpec("Extra", StructType(<<Field(<<"Name">>, Ident("string"))>>))>>),
              GenDecl("",
                <<TypeSpec("Node", StructType(<<Field(<<"Peer">>, StarExpr(Ident("Peer")))>>)),
                  TypeSpec("Peer", StructType(<<Field(<<"Node">>, StarExpr(Ident("Node")))>>))>>)>>)>>))
    @@ (PathTime :> TimePackage)

\* a package path that resolves to no source: packages.Load returns a package
\* with Errors set and no syntax
StubWorld ==
    (PathNone :> Package("", "", <<>>)) @@ (PathTime :> TimePackage)

\* package g with two files that both declare Leaf and Extra (the loader
\* reports the redeclaration as an error of the package and still returns it)
RedeclWorld ==
    (PathG :> Package("g", "",
        <<File("a.go", <<>>,
            <<GenDecl("Leaf and Extra.",
                <<TypeSpec("Leaf", StructType(<<Field(<<"Name">>, Ident("string"))>>)),
                  TypeSpec("Extra", StructType(<<Field(<<"Name">>, Ident("string"))>>))>>),
              GenDecl("",
                <<TypeSpec("Node", StructType(<<Field(<<"Peer">>, StarExpr(Ident("Peer")))>>)),
                  TypeSpec("Peer", StructType(<<Field(<<"Node">>, StarExpr(Ident("Node")))>>))>>)>>),
          File("b.go", <<>>,
            <<GenDecl("Leaf again.",
                <<TypeSpec("Leaf", StructType(<<Field(<<"ID">>, Ident("int"))>>))>>),
              GenDecl("Extra again.",
                <<TypeSpec("Extra", StructType(<<Field(<<"ID">>, Ident("int"))>>))>>)>>)>>))
    @@ (PathTime :> TimePackage)

PathApp == "a.io/cd/v1alpha1"

PathHealth == "g.io/engine/health"

PathRuntime == "k.io/am/runtime"

PathLocal == "local/api.v1"

\* three packages of three modules:
\*   package v1alpha1: type Application struct {
\*       Name string; Health health.HealthStatusCode; runtime.RawExtension }
\*   package health:   type HealthStatusCode string
\*   package runtime:  type RawExtension struct { Raw []byte }
ApplicationWorld ==
    (PathApp :> Package("v1alpha1", "a.io/cd",
        <<File("types.go",
            <<ImportSpec("", PathHealth), ImportSpec("", PathRuntime)>>,
            <<GenDecl("Application is the root.", <<TypeSpec("Application",
                StructType(<<Field(<<"Name">>, Ident("string")),
                             Field(<<"Health">>,
                                   SelectorExpr(Ident("health"), "HealthStatusCode")),
                             Field(<<>>,
                                   SelectorExpr(Ident("runtime"), "RawExtension"))>>))>>)>>)>>))
    @@ (PathHealth :> Package("health", "g.io/engine",
        <<File("health.go", <<>>,
            <<GenDecl("", <<TypeSpec("HealthStatusCode", Ident("string"))>>)>>)>>))
    @@ (PathRuntime :> Package("runtime", "k.io/am",
        <<File("types.go", <<>>,
            <<GenDecl("", <<TypeSpec("RawExtension",
                StructType(<<Field(<<"Raw">>, ArrayType(Ident("byte")))>>))>>)>>)>>))

\* a package whose path has a dot, in a module whose path has none:
\*   module local; package local/api.v1: type T struct { Name string }
LocalWorld ==
    (PathLocal :> Package("v1", "local",
        <<File("types.go", <<>>,
            <<GenDecl("", <<TypeSpec("T",
                StructType(<<Field(<<"Name">>, Ident("string"))>>))>>)>>)>>))

\* package p imports b.io/n/q under `alias` ("" for no alias); the package
\* at that path is declared `package <qname>`; A refers to its type C through
\* the name the import binds
AliasWorld(alias, qname) ==
    (PathP :> Package("p", "a.io/m",
        <<File("types.go",
            <<ImportSpec(alias, PathQ)>>,
            <<GenDecl("", <<TypeSpec("A",
                StructType(<<Field(<<"F">>,
                    SelectorExpr(Ident(IF alias # "" THEN alias ELSE qname),
                                 "C"))>>))>>)>>)>>))
    @@ (PathQ :> Package(qname, "b.io/n",
        <<File("types.go", <<>>,
            <<GenDecl("", <<TypeSpec("C",
                StructType(<<Field(<<"Name">>, Ident("string"))>>))>>)>>)>>))

\* the alias a tool derives from an import path: its segments joined with
\* underscores, dots and dashes replaced
Mangled(path) ==
    ReplaceAll(ReplaceAll(Join(Split(Trim(path, "/"), "/"), "_"), ".", "_"), "-", "_")

PathX == "x.io/a/q"

PathY == "y.io/b/q"

PathShort == "b.io/q"

\* the import declarations of the resolver universes: each path without
\* alias, under its last segment, under another name and under its mangled
\* alias
ImportUniverse ==
    {ImportSpec(name, path) :
        <<name, path>> \in {t \in {"", "q", "alt", Mangled(PathX), Mangled(PathY),
                                   Mangled(PathShort)} \X {PathX, PathY, PathShort} :
                                t[1] \in {"", "q", "alt", Mangled(t[2])}}}

\* the import lists of at most n declarations
ImportLists(n) == UNION {[1..k -> ImportUniverse] : k \in 0..n}

\* package p with two files that hold import declarations only
ResolverWorld(imports1, imports2) ==
    (PathP :> Package("p", "a.io/m",
        <<File("a.go", imports1, <<>>), File("b.go", imports2, <<>>)>>))

PathLib == "z.io/lib"

\* package p imports b.io/n/q (declared `package impl`) and z.io/lib (declared
\* `package q`), both without alias, and A refers to q.C: the compiler binds
\* q to z.io/lib, the last segment of b.io/n/q is q as well
ShadowWorld ==
    (PathP :> Package("p", "a.io/m",
        <<File("types.go",
            <<ImportSpec("", PathQ), ImportSpec("", PathLib)>>,
            <<GenDecl("", <<TypeSpec("A",
                StructType(<<Field(<<"F">>,
                    SelectorExpr(Ident("q"), "C"))>>))>>)>>)>>))
    @@ (PathQ :> Package("impl", "b.io/n",
        <<File("types.go", <<>>,
            <<GenDecl("", <<TypeSpec("C",
                StructType(<<Field(<<"Name">>, Ident("string"))>>))>>)>>)>>))
    @@ (PathLib :> Package("q", "z.io/lib",
        <<File("types.go", <<>>,
            <<GenDecl("", <<TypeSpec("C",
                StructType(<<Field(<<"ID">>, Ident("int"))>>))>>)>>)>>))

PathV1 == "x.io/api/v1"

PathV2 == "y.io/api/v2"

\* package p has two files; a.go imports x.io/api/v1 and b.go imports
\* y.io/api/v2, both declared `package api`, and each file refers to api.T
ClashWorld ==
    (PathP :> Package("p", "a.io/m",
        <<File("a.go", <<ImportSpec("", PathV1)>>,
            <<GenDecl("", <<TypeSpec("A",
                StructType(<<Field(<<"F">>,
                    SelectorExpr(Ident("api"), "T"))>>))>>)>>),
          File("b.go", <<ImportSpec("", PathV2)>>,
            <<GenDecl("", <<TypeSpec("B",
                StructType(<<Field(<<"G">>,
                    SelectorExpr(Ident("api"), "T"))>>))>>)>>)>>))
    @@ (PathV1 :> Package("api", "x.io/api",
        <<File("types.go", <<>>,
            <<GenDecl("", <<TypeSpec("T",
                StructType(<<Field(<<"Name">>, Ident("string"))>>))>>)>>)>>))
    @@ (PathV2 :> Package("api", "y.io/api",
        <<File("types.go", <<>>,
            <<GenDecl("", <<TypeSpec("T",
                StructType(<<Field(<<"ID">>, Ident("int"))>>))>>)>>)>>))

\* package p in two files: a.go imports path1 under alias1 and declares
\* A struct{ F alias1.T; G B }, b.go imports path2 under alias2 and declares
\* B struct{ G alias2.T }; the packages x.io/api/v1 and y.io/api/v2 declare T
FilesWorld(alias1, path1, alias2, path2) ==
    (PathP :> Package("p", "a.io/m",
        <<File("a.go", <<ImportSpec(alias1, path1)>>,
            <<GenDecl("", <<TypeSpec("A",
                StructType(<<Field(<<"F">>, SelectorExpr(Ident(alias1), "T")),
                             Field(<<"G">>, Ident("B"))>>))>>)>>),
          File("b.go", <<ImportSpec(alias2, path2)>>,
            <<GenDecl("", <<TypeSpec("B",
                StructType(<<Field(<<"G">>,
                    SelectorExpr(Ident(alias2), "T"))>>))>>)>>)>>))
    @@ (PathV1 :> Package("api", "x.io/api",
        <<File("types.go", <<>>,
            <<GenDecl("", <<TypeSpec("T",
                StructType(<<Field(<<"Name">>, Ident("string"))>>))>>)>>)>>))
    @@ (PathV2 :> Package("api", "y.io/api",
        <<File("types.go", <<>>,
            <<GenDecl("", <<TypeSpec("T",
                StructType(<<Field(<<"ID">>, Ident("int"))>>))>>)>>)>>))

\* package p declares A as each form of type expression over these
\* operands: a builtin, the sibling B, q.C, the empty interface and an
\* instantiated generic type; package q declares C
WalkWorlds ==
    LET operands == {Ident("string"), Ident("B"), SelectorExpr(Ident("q"), "C"),
                     InterfaceType(<<>>),
                     IndexExpr(Ident("B"), SelectorExpr(Ident("q"), "C"))}
        exprs ==
            operands
            \cup {StarExpr(x) : x \in operands}
            \cup {ArrayType(x) : x \in operands}
            \cup {MapType(x, y) : x \in operands, y \in operands}
            \cup {StructType(<<Field(<<"F">>, x), Field(<<>>, y)>>) :
                    x \in operands, y \in operands}
            \cup {FuncType(<<Field(<<"xs">>, Ellipsis(x))>>,
                           <<Field(<<>>, ChanType(y))>>) :
                    x \in operands, y \in operands}
            \cup {InterfaceType(<<Field(<<>>, x),
                                  Field(<<"M">>, FuncType(<<Field(<<>>, y)>>, <<>>))>>) :
                    x \in operands, y \in operands}
    IN  {(PathP :> Package("p", "a.io/m",
            <<File("types.go",
                <<ImportSpec("", PathQ)>>,
                <<GenDecl("", <<TypeSpec("A", expr)>>),
                  GenDecl("", <<TypeSpec("B",
                    StructType(<<Field(<<"Name">>, Ident("string"))>>))>>)>>)>>))
         @@ (PathQ :> Package("q", "b.io/n",
            <<File("types.go", <<>>,
                <<GenDecl("", <<TypeSpec("C",
                    StructType(<<Field(<<"Name">>, Ident("string"))>>))>>)>>)>>)) :
         expr \in exprs}

\* the aliases and package names of the alias universes
Aliases == {"", "qq", "q", Mangled(PathQ)}

PackageNames == {"q", "impl"}

TypeRef(pkgPath, typeName) == [PackagePath |-> pkgPath, TypeName |-> typeName]

OutputDir == "generated"

Config(pkgPath, typeName) ==
    [PackagePath |-> pkgPath, TypeName |-> typeName, OutputDir |-> OutputDir]

\* the runs checked with one go.mod: every generated graph and every form of
\* type expression, with root p.A
Scenarios ==
    {[world |-> GraphWorld(g), config |-> Config(PathP, "A")] : g \in Graphs}
    \cup {[world |-> w, config |-> Config(PathP, "A")] : w \in WalkWorlds}

\* the runs checked with every go.mod: the graphs with fewer references, and
\* the runs with another root, with grouped declarations, with a package that
\* has no source, with three modules, with a module path that has no dot,
\* with aliased imports, with a package name that is another import's last
\* segment, with two imported packages of one name, with two files that bind
\* one alias to two paths and two aliases to one path
SmallScenarios ==
    {[world |-> GraphWorld(g), config |-> Config(PathP, "A")] :
        g \in {h \in Graphs : \A sl \in Slots : Cardinality(h[sl]) < MaxRefs}}
    \cup {[world |-> GraphWorld([sl \in Slots |-> {"P.A"}]), config |-> c] :
            c \in {Config(PathQ, "C"), Config(PathTime, "Time"),
                   Config(PathP, "Gone"), Config(PathNone, "A")}}
    \cup {[world |-> GroupedWorld, config |-> Config(PathG, n)] :
            n \in {"Leaf", "Node"}}
    \cup {[world |-> StubWorld, config |-> Config(PathNone, "A")]}
    \cup {[world |-> ApplicationWorld, config |-> Config(PathApp, "Application")]}
    \cup {[world |-> LocalWorld, config |-> Config(PathLocal, "T")]}
    \cup {[world |-> AliasWorld(al, qn), config |-> Config(PathP, "A")] :
            al \in Aliases, qn \in PackageNames}
    \cup {[world |-> w, config |-> Config(PathP, "A")] :
            w \in {ShadowWorld, ClashWorld,
                   FilesWorld("api", PathV1, "api", PathV2),
                   FilesWorld("one", PathV1, "two", PathV1)}}

\* every import path written in the universe w, in a fixed order
ImportPathsOf(w) ==
    {w[p].Syntax[f].Imports[i].Path :
        <<p, f, i>> \in {t \in (DOMAIN w) \X (1..2) \X (1..4) :
            /\ t[2] <= Len(w[t[1]].Syntax)
            /\ t[3] <= Len(w[t[1]].Syntax[t[2]].Imports)}}

RECURSIVE SeqOfSet(_)
SeqOfSet(S) ==
    IF S = {} THEN <<>>
    ELSE LET x == CHOOSE y \in S : TRUE IN <<x>> \o SeqOfSet(S \ {x})

\* the iteration orders that can make a difference: those of the paths
\* whose packages share their name with another imported package
IterOrders(w) ==
    LET paths == ImportPathsOf(w)
        NameOf(p) == IF p \in DOMAIN w THEN w[p].Name ELSE ""
        clash == {p \in paths : \E o \in paths : o # p /\ NameOf(o) = NameOf(p)}
        rest == SeqOfSet(paths \ clash)
    IN  {s \o rest : s \in {t \in [1..Cardinality(clash) -> clash] :
                                \A i, j \in DOMAIN t : i # j => t[i] # t[j]}}

\* ------------------------------------------------------------------------
\* The rewriter.  A value r stands for the RecursiveRewriter: its fields
\* packages, pendingTypes, processedTypes and modules, and the calls it has
\* made to packages.Load (loadCalls) and to extractType (extractCalls).

\* TypeRef.String
String(tr) == tr.PackagePath \o "." \o tr.TypeName

\* variant of isStdlib: no path is taken for a standard-library path
isStdlib_Never(pkgPath) == FALSE

\* RecursiveRewriter.isStdlib
isStdlib(pkgPath) == ~Contains(pkgPath, ".")

\* variant of getModulePath: the loader's module metadata is not consulted
getModulePath_PackagePath(pkg) == pkg.PkgPath

\* getModulePath
getModulePath(pkg) == IF pkg.Module # "" THEN pkg.Module ELSE pkg.PkgPath

\* variant of queueType: the processed-set is not consulted
queueType_NoProcessedCheck(r, pkgPath, typeName) ==
    LET typeRef == TypeRef(pkgPath, typeName)
    IN  IF \E i \in 1..Len(r.pendingTypes) :
                String(r.pendingTypes[i]) = String(typeRef)
        THEN r
        ELSE [r EXCEPT !.pendingTypes = Append(@, typeRef)]

\* variant of queueType: the queue is not scanned
queueType_NoQueueCheck(r, pkgPath, typeName) ==
    LET typeRef == TypeRef(pkgPath, typeName)
    IN  IF String(typeRef) \in r.processedTypes THEN r
        ELSE [r EXCEPT !.pendingTypes = Append(@, typeRef)]

\* variant of queueType: the package of a queued reference is loaded at once
queueType_LoadNow(r, pkgPath, typeName) ==
    LET typeRef == TypeRef(pkgPath, typeName)
    IN  IF String(typeRef) \in r.processedTypes THEN r
        ELSE IF \E i \in 1..Len(r.pendingTypes) :
                    String(r.pendingTypes[i]) = String(typeRef)
        THEN r
        ELSE [r EXCEPT !.pendingTypes = Append(@, typeRef),
                       !.loadCalls = Append(@, pkgPath)]

\* variant of queueType: only types of packages that are loaded are queued
queueType_LoadedOnly(r, pkgPath, typeName) ==
    LET typeRef == TypeRef(pkgPath, typeName)
    IN  IF String(typeRef) \in r.processedTypes THEN r
        ELSE IF \E i \in 1..Len(r.pendingTypes) :
                    String(r.pendingTypes[i]) = String(typeRef)
        THEN r
        ELSE IF pkgPath \notin DOMAIN r.packages THEN r
        ELSE [r EXCEPT !.pendingTypes = Append(@, typeRef)]

\* RecursiveRewriter.queueType
queueType(r, pkgPath, typeName) ==
    LET typeRef == TypeRef(pkgPath, typeName)
    IN  IF String(typeRef) \in r.processedTypes THEN r
        ELSE IF \E i \in 1..Len(r.pendingTypes) :
                    String(r.pendingTypes[i]) = String(typeRef)
        THEN r
        ELSE [r EXCEPT !.pendingTypes = Append(@, typeRef)]

\* variant of the scope lookup: no identifier is taken for a type of the package
ScopeHasTypeName_Never(pkg, name) == FALSE

\* pkgInfo.Pkg.Types.Scope().Lookup(name) is a *types.TypeName: name is
\* declared as a type at package level in one of the package's files
ScopeHasTypeName(pkg, name) ==
    \E f \in 1..Len(pkg.Syntax) : \E d \in 1..Len(pkg.Syntax[f].Decls) :
        \E sp \in 1..Len(pkg.Syntax[f].Decls[d].Specs) :
            pkg.Syntax[f].Decls[d].Specs[sp].Name = name

\* pkgInfo.Pkg.Imports: import path -> name of the imported package
LoaderImports(pkg) ==
    LET paths == {pkg.Syntax[f].Imports[i].Path :
                    <<f, i>> \in {t \in (1..Len(pkg.Syntax)) \X (1..4) :
                                    t[2] <= Len(pkg.Syntax[t[1]].Imports)}}
    IN  [p \in paths |-> IF p \in DOMAIN world THEN world[p].Name ELSE ""]

\* variant of the selector resolution: the loader's imports are consulted first
resolveSelector_LoaderFirst(pkgInfo, pkgName, ord) ==
    LET byName == IF pkgName \in DOMAIN pkgInfo.NameToPath
                  THEN pkgInfo.NameToPath[pkgName] ELSE ""
        imps == LoaderImports(pkgInfo.Pkg)
        byLoader == FirstIn(ord, {path \in DOMAIN imps : imps[path] = pkgName})
        byUsed == FirstIn(ord, {path \in DOMAIN pkgInfo.Imports :
                                    pkgInfo.Imports[path] = pkgName})
    IN  IF byLoader # "" THEN byLoader
        ELSE IF byName # "" THEN byName
        ELSE byUsed

\* the SelectorExpr case of walkTypeForDeps: the path the package name stands for
resolveSelector(pkgInfo, pkgName, ord) ==
    LET byName == IF pkgName \in DOMAIN pkgInfo.NameToPath
                  THEN pkgInfo.NameToPath[pkgName] ELSE ""
        imps == LoaderImports(pkgInfo.Pkg)
        byLoader == FirstIn(ord, {path \in DOMAIN imps : imps[path] = pkgName})
        byUsed == FirstIn(ord, {path \in DOMAIN pkgInfo.Imports :
                                    pkgInfo.Imports[path] = pkgName})
    IN  IF byName # "" THEN byName
        ELSE IF byLoader # "" THEN byLoader
        ELSE byUsed

\* RecursiveRewriter.walkTypeForDeps, on the package record r.packages[pkgPath]
RECURSIVE walkTypeForDeps(_, _, _, _)
RECURSIVE walkFieldList(_, _, _, _)
\* variant of the field loops: embedded fields are not walked
walkFieldList_NamedOnly(r, pkgPath, fields, ord) ==
    IF Len(fields) = 0 THEN r
    ELSE walkFieldList(IF Len(fields[1].Names) = 0 THEN r
                       ELSE walkTypeForDeps(r, pkgPath, fields[1].Type, ord),
                       pkgPath, Tail(fields), ord)

\* variant of the field loops: only the first field is walked
walkFieldList_FirstOnly(r, pkgPath, fields, ord) ==
    IF Len(fields) = 0 THEN r
    ELSE walkTypeForDeps(r, pkgPath, fields[1].Type, ord)

walkFieldList(r, pkgPath, fields, ord) ==
    IF Len(fields) = 0 THEN r
    ELSE walkFieldList(walkTypeForDeps(r, pkgPath, fields[1].Type, ord),
                       pkgPath, Tail(fields), ord)

walkTypeForDeps(r, pkgPath, expr, ord) ==
    LET pkgInfo == r.packages[pkgPath]
    IN  CASE expr.kind = "Ident" ->
                IF ScopeHasTypeName(pkgInfo.Pkg, expr.Name)
                THEN queueType(r, pkgInfo.Pkg.PkgPath, expr.Name)
                ELSE r
          [] expr.kind = "StarExpr" -> walkTypeForDeps(r, pkgPath, expr.X, ord)
          [] expr.kind = "ArrayType" -> walkTypeForDeps(r, pkgPath, expr.Elt, ord)
          [] expr.kind = "MapType" ->
                walkTypeForDeps(walkTypeForDeps(r, pkgPath, expr.Key, ord),
                                pkgPath, expr.Value, ord)
          [] expr.kind = "StructType" -> walkFieldList(r, pkgPath, expr.Fields, ord)
          [] expr.kind = "SelectorExpr" ->
                IF expr.X.kind = "Ident"
                THEN LET pkgName == expr.X.Name
                         externalPkgPath == resolveSelector(pkgInfo, pkgName, ord)
                     IN  IF externalPkgPath # ""
                         THEN [queueType(r, externalPkgPath, expr.Sel) EXCEPT
                                 !.packages[pkgPath].Imports =
                                     Put(@, externalPkgPath, pkgName)]
                         ELSE r
                ELSE r
          [] expr.kind = "InterfaceType" -> walkFieldList(r, pkgPath, expr.Methods, ord)
          [] expr.kind = "FuncType" ->
                walkFieldList(walkFieldList(r, pkgPath, expr.Params, ord),
                              pkgPath, expr.Results, ord)
          [] expr.kind = "ChanType" -> walkTypeForDeps(r, pkgPath, expr.Value, ord)
          [] expr.kind = "Ellipsis" -> walkTypeForDeps(r, pkgPath, expr.Elt, ord)
          [] OTHER -> r

\* variant of collectTypeDecl: a recorded declaration is overwritten
collectTypeDecl_Overwrite(pkgInfo, name, decl, file) ==
    [pkgInfo EXCEPT !.Decls = Put(@, name,
        [Name |-> name, Decl |-> decl, File |-> file,
         Comment |-> decl.Doc, PackagePath |-> pkgInfo.Pkg.PkgPath])]

\* RecursiveRewriter.collectTypeDecl
collectTypeDecl(pkgInfo, name, decl, file) ==
    IF name \in DOMAIN pkgInfo.Decls THEN pkgInfo
    ELSE [pkgInfo EXCEPT !.Decls = Put(@, name,
            [Name |-> name, Decl |-> decl, File |-> file,
             Comment |-> decl.Doc, PackagePath |-> pkgInfo.Pkg.PkgPath])]

\* variant of collectImport: an import without alias is recorded under its
\* whole path
collectImport_WholePath(pkgInfo, imp) ==
    LET path == imp.Path
        hasExplicitAlias == imp.Name # ""
        pkgName == IF hasExplicitAlias THEN imp.Name ELSE path
        pathParts == Split(Trim(path, "/"), "/")
        mangledPattern ==
            ReplaceAll(ReplaceAll(Join(pathParts, "_"), ".", "_"), "-", "_")
        isMangled ==
            /\ hasExplicitAlias
            /\ Len(pathParts) >= 3
            /\ \/ Contains(pkgName, mangledPattern)
               \/ (Len(pathParts) >= 3 /\ Count(pkgName, "_") >= 2)
        existing == IF path \in DOMAIN pkgInfo.SourceImports
                    THEN pkgInfo.SourceImports[path] ELSE <<>>
        alreadyExists == \E i \in 1..Len(existing) : existing[i] = pkgName
    IN  IF isMangled \/ alreadyExists THEN pkgInfo
        ELSE [pkgInfo EXCEPT
                !.SourceImports = Put(@, path, Append(existing, pkgName)),
                !.NameToPath =
                    IF pkgName \in DOMAIN @
                    THEN (IF hasExplicitAlias THEN Put(@, pkgName, path) ELSE @)
                    ELSE Put(@, pkgName, path)]

\* variant of collectImport: no alias is taken for a mangled one
collectImport_KeepMangled(pkgInfo, imp) ==
    LET path == imp.Path
        hasExplicitAlias == imp.Name # ""
        pkgName == IF hasExplicitAlias THEN imp.Name ELSE Base(path)
        pathParts == Split(Trim(path, "/"), "/")
        mangledPattern ==
            ReplaceAll(ReplaceAll(Join(pathParts, "_"), ".", "_"), "-", "_")
        isMangled ==
            /\ hasExplicitAlias
            /\ Len(pathParts) >= 3
            /\ \/ Contains(pkgName, mangledPattern)
               \/ (Len(pathParts) >= 3 /\ Count(pkgName, "_") >= 2)
        existing == IF path \in DOMAIN pkgInfo.SourceImports
                    THEN pkgInfo.SourceImports[path] ELSE <<>>
        alreadyExists == \E i \in 1..Len(existing) : existing[i] = pkgName
    IN  IF alreadyExists THEN pkgInfo
        ELSE [pkgInfo EXCEPT
                !.SourceImports = Put(@, path, Append(existing, pkgName)),
                !.NameToPath =
                    IF pkgName \in DOMAIN @
                    THEN (IF hasExplicitAlias THEN Put(@, pkgName, path) ELSE @)
                    ELSE Put(@, pkgName, path)]

\* the body of collectSourceImports' loop, for one ImportSpec
collectImport(pkgInfo, imp) ==
    LET path == imp.Path
        hasExplicitAlias == imp.Name # ""
        pkgName == IF hasExplicitAlias THEN imp.Name ELSE Base(path)
        pathParts == Split(Trim(path, "/"), "/")
        mangledPattern ==
            ReplaceAll(ReplaceAll(Join(pathParts, "_"), ".", "_"), "-", "_")
        isMangled ==
            /\ hasExplicitAlias
            /\ Len(pathParts) >= 3
            /\ \/ Contains(pkgName, mangledPattern)
               \/ (Len(pathParts) >= 3 /\ Count(pkgName, "_") >= 2)
        existing == IF path \in DOMAIN pkgInfo.SourceImports
                    THEN pkgInfo.SourceImports[path] ELSE <<>>
        alreadyExists == \E i \in 1..Len(existing) : existing[i] = pkgName
    IN  IF isMangled \/ alreadyExists THEN pkgInfo
        ELSE [pkgInfo EXCEPT
                !.SourceImports = Put(@, path, Append(existing, pkgName)),
                !.NameToPath =
                    IF pkgName \in DOMAIN @
                    THEN (IF hasExplicitAlias THEN Put(@, pkgName, path) ELSE @)
                    ELSE Put(@, pkgName, path)]

\* RecursiveRewriter.collectSourceImports
RECURSIVE collectSourceImportsFrom(_, _)
collectSourceImportsFrom(pkgInfo, imports) ==
    IF Len(imports) = 0 THEN pkgInfo
    ELSE collectSourceImportsFrom(collectImport(pkgInfo, imports[1]), Tail(imports))

collectSourceImports(pkgInfo, file) == collectSourceImportsFrom(pkgInfo, file.Imports)

RECURSIVE collectAllSourceImports(_, _)
collectAllSourceImports(pkgInfo, files) ==
    IF Len(files) = 0 THEN pkgInfo
    ELSE collectAllSourceImports(collectSourceImports(pkgInfo, files[1]), Tail(files))

\* packages.Load(cfg, pkgPath): the package, with its path; NoPackage when
\* the loader fails or returns no package
NoPackage == [PkgPath |-> ""]

packagesLoad(pkgPath) ==
    IF pkgPath \in DOMAIN world
    THEN [PkgPath |-> pkgPath, Name |-> world[pkgPath].Name,
          Module |-> world[pkgPath].Module, Syntax |-> world[pkgPath].Syntax]
    ELSE NoPackage

\* loadPackageInfo past its cache test: the load, the module registry, the
\* new package record
loadFresh(r, pkgPath) ==
    LET pkg == packagesLoad(pkgPath)
        r1 == [r EXCEPT !.loadCalls = Append(@, pkgPath)]
    IN  IF pkg = NoPackage THEN [r |-> r1, err |-> TRUE]
        ELSE LET modulePath == getModulePath(pkg)
                 mods == IF modulePath \in DOMAIN r.modules THEN r.modules
                         ELSE Put(r.modules, modulePath,
                                  [Path |-> modulePath, Packages |-> <<>>])
                 pkgInfo == [Pkg |-> pkg,
                             Decls |-> EmptyMap,
                             Imports |-> EmptyMap,
                             SourceImports |-> EmptyMap,
                             NameToPath |-> EmptyMap,
                             OutputSubdir |-> pkgPath,
                             ModulePath |-> modulePath]
             IN  [r |-> [r1 EXCEPT
                           !.modules = [mods EXCEPT ![modulePath].Packages =
                                           Append(@, pkgPath)],
                           !.packages = Put(@, pkgPath,
                               collectAllSourceImports(pkgInfo, pkg.Syntax))],
                  err |-> FALSE]

\* variant of loadPackageInfo: the cache is not consulted
loadPackageInfo_NoCache(r, pkgPath) == loadFresh(r, pkgPath)

\* RecursiveRewriter.loadPackageInfo: [r, err]
loadPackageInfo(r, pkgPath) ==
    IF pkgPath \in DOMAIN r.packages THEN [r |-> r, err |-> FALSE]
    ELSE loadFresh(r, pkgPath)

\* the search loop of extractType: the first TypeSpec named typeName, in file
\* order, declaration order and spec order
findTypeSpec(pkg, typeName) ==
    LET hits == {t \in (1..Len(pkg.Syntax)) \X (1..4) \X (1..4) :
                    /\ t[2] <= Len(pkg.Syntax[t[1]].Decls)
                    /\ t[3] <= Len(pkg.Syntax[t[1]].Decls[t[2]].Specs)
                    /\ pkg.Syntax[t[1]].Decls[t[2]].Specs[t[3]].Name = typeName}
        Before(a, b) ==
            \/ a[1] < b[1]
            \/ a[1] = b[1] /\ a[2] < b[2]
            \/ a[1] = b[1] /\ a[2] = b[2] /\ a[3] <= b[3]
    IN  IF hits = {} THEN [found |-> FALSE]
        ELSE LET h == CHOOSE a \in hits : \A b \in hits : Before(a, b)
             IN  [found |-> TRUE,
                  typeSpec |-> pkg.Syntax[h[1]].Decls[h[2]].Specs[h[3]],
                  genDecl |-> pkg.Syntax[h[1]].Decls[h[2]],
                  file |-> pkg.Syntax[h[1]].FileName]

\* variant of extractType: a type that is not found is skipped without error
extractType_SkipMissing(r, typeRef, ord) ==
    LET loaded == loadPackageInfo(r, typeRef.PackagePath)
    IN  IF loaded.err THEN loaded
        ELSE LET r1 == loaded.r
                 pkgInfo == r1.packages[typeRef.PackagePath]
                 hit == findTypeSpec(pkgInfo.Pkg, typeRef.TypeName)
             IN  IF hit.found
                 THEN LET r2 == [r1 EXCEPT !.packages[typeRef.PackagePath] =
                                    collectTypeDecl(@, hit.typeSpec.Name,
                                                    hit.genDecl, hit.file)]
                      IN  [r |-> walkTypeForDeps(r2, typeRef.PackagePath,
                                                 hit.typeSpec.Type, ord),
                           err |-> FALSE]
                 ELSE [r |-> r1, err |-> FALSE]

\* RecursiveRewriter.extractType: [r, err]
extractType(r, typeRef, ord) ==
    LET loaded == loadPackageInfo(r, typeRef.PackagePath)
    IN  IF loaded.err THEN loaded
        ELSE LET r1 == loaded.r
                 pkgInfo == r1.packages[typeRef.PackagePath]
                 hit == findTypeSpec(pkgInfo.Pkg, typeRef.TypeName)
             IN  IF hit.found
                 THEN LET r2 == [r1 EXCEPT !.packages[typeRef.PackagePath] =
                                    collectTypeDecl(@, hit.typeSpec.Name,
                                                    hit.genDecl, hit.file)]
                      IN  [r |-> walkTypeForDeps(r2, typeRef.PackagePath,
                                                 hit.typeSpec.Type, ord),
                           err |-> FALSE]
                 ELSE [r |-> r1, err |-> TRUE]

\* variant of the driver loop: an extraction error does not end the run
processNext_ContinueOnError(r, ord) ==
    LET typeRef == r.pendingTypes[1]
        r1 == [r EXCEPT !.pendingTypes = Tail(@)]
    IN  IF String(typeRef) \in r1.processedTypes
        THEN [r |-> r1, err |-> FALSE, op |-> "skip"]
        ELSE IF isStdlib(typeRef.PackagePath)
        THEN [r |-> [r1 EXCEPT !.processedTypes = @ \cup {String(typeRef)}],
              err |-> FALSE, op |-> "stdlib"]
        ELSE LET got == extractType(
                            [r1 EXCEPT !.extractCalls = Append(@, typeRef)],
                            typeRef, ord)
             IN  [r |-> [got.r EXCEPT
                            !.processedTypes = @ \cup {String(typeRef)}],
                  err |-> FALSE, op |-> "extract"]

\* variant of the driver loop: a popped reference is extracted even when it
\* is already processed
processNext_NoProcessedCheck(r, ord) ==
    LET typeRef == r.pendingTypes[1]
        r1 == [r EXCEPT !.pendingTypes = Tail(@)]
    IN  IF isStdlib(typeRef.PackagePath)
        THEN [r |-> [r1 EXCEPT !.processedTypes = @ \cup {String(typeRef)}],
              err |-> FALSE, op |-> "stdlib"]
        ELSE LET got == extractType(
                            [r1 EXCEPT !.extractCalls = Append(@, typeRef)],
                            typeRef, ord)
             IN  IF got.err
                 THEN [r |-> got.r, err |-> TRUE, op |-> "extract"]
                 ELSE [r |-> [got.r EXCEPT
                                !.processedTypes = @ \cup {String(typeRef)}],
                       err |-> FALSE, op |-> "extract"]

\* variant of the driver loop: the reference is taken from the back of the queue
processNext_PopBack(r, ord) ==
    LET typeRef == r.pendingTypes[Len(r.pendingTypes)]
        r1 == [r EXCEPT !.pendingTypes = SubSeq(@, 1, Len(@) - 1)]
    IN  IF String(typeRef) \in r1.processedTypes
        THEN [r |-> r1, err |-> FALSE, op |-> "skip"]
        ELSE IF isStdlib(typeRef.PackagePath)
        THEN [r |-> [r1 EXCEPT !.processedTypes = @ \cup {String(typeRef)}],
              err |-> FALSE, op |-> "stdlib"]
        ELSE LET got == extractType(
                            [r1 EXCEPT !.extractCalls = Append(@, typeRef)],
                            typeRef, ord)
             IN  IF got.err
                 THEN [r |-> got.r, err |-> TRUE, op |-> "extract"]
                 ELSE [r |-> [got.r EXCEPT
                                !.processedTypes = @ \cup {String(typeRef)}],
                       err |-> FALSE, op |-> "extract"]

\* one iteration of the driver loop of RewriteRecursive: [r, err, op]
processNext(r, ord) ==
    LET typeRef == r.pendingTypes[1]
        r1 == [r EXCEPT !.pendingTypes = Tail(@)]
    IN  IF String(typeRef) \in r1.processedTypes
        THEN [r |-> r1, err |-> FALSE, op |-> "skip"]
        ELSE IF isStdlib(typeRef.PackagePath)
        THEN [r |-> [r1 EXCEPT !.processedTypes = @ \cup {String(typeRef)}],
              err |-> FALSE, op |-> "stdlib"]
        ELSE LET got == extractType(
                            [r1 EXCEPT !.extractCalls = Append(@, typeRef)],
                            typeRef, ord)
             IN  IF got.err
                 THEN [r |-> got.r, err |-> TRUE, op |-> "extract"]
                 ELSE [r |-> [got.r EXCEPT
                                !.processedTypes = @ \cup {String(typeRef)}],
                       err |-> FALSE, op |-> "extract"]

\* ------------------------------------------------------------------------
\* The consumer's go.mod (GoModManager) and the generated output.

\* GoModManager.RemoveReplace (modfile.File.DropReplace)
RemoveReplace(m, modulePath) ==
    [m EXCEPT !.Replace = [o \in (DOMAIN @) \ {modulePath} |-> @[o]]]

\* GoModManager.AddReplace (modfile.File.AddReplace)
AddReplace(m, modulePath, localPath) ==
    [m EXCEPT !.Replace = Put(@, modulePath, localPath)]

\* GoModManager.GetReplaces
GetReplaces(m) == m.Replace

\* a go.mod with replace directives of an earlier run and of the user
StaleGoMod ==
    [state |-> "ok", Replace |-> ("a.io/m" :> "../m") @@ ("z.io/x" :> "../x")]

\* the go.mod files the runs start from
GoModFiles ==
    {[state |-> "missing", Replace |-> EmptyMap],
     [state |-> "unparsable", Replace |-> EmptyMap],
     [state |-> "ok", Replace |-> EmptyMap],
     StaleGoMod}

\* FindGoMod and NewGoModManager: the manager, ok = FALSE for a nil manager
NewGoModManager(disk) ==
    IF disk.state = "ok" THEN [ok |-> TRUE, Replace |-> disk.Replace]
    ELSE [ok |-> FALSE, Replace |-> EmptyMap]

\* the loop over GetReplaces of RewriteRecursive: every directive is dropped
dropAllReplaces(m) ==
    [m EXCEPT !.Replace = [o \in {p \in DOMAIN @ : FALSE} |-> @[o]]]

\* the hasDecls loop of generateModuleFiles and updateGoModReplaces
moduleHasDecls(r, modulePath) ==
    \E i \in 1..Len(r.modules[modulePath].Packages) :
        LET pkgPath == r.modules[modulePath].Packages[i]
        IN  pkgPath \in DOMAIN r.packages /\ DOMAIN r.packages[pkgPath].Decls # {}

\* variant of generateModuleFiles: the module of the requested package gets
\* no go.mod
generateModuleFiles_DependenciesOnly(r) ==
    LET mods == {m \in DOMAIN r.modules :
                    /\ ~isStdlib(m) /\ moduleHasDecls(r, m)
                    /\ \A i \in 1..Len(r.modules[m].Packages) :
                        r.modules[m].Packages[i] # config.PackagePath}
        ModOf(f) == CHOOSE m \in mods : PathJoin(PathJoin(config.OutputDir, m), "go.mod") = f
    IN  [f \in {PathJoin(PathJoin(config.OutputDir, m), "go.mod") : m \in mods} |->
            [Module |-> ModOf(f), Go |-> "1.21", Require |-> {}]]

\* RecursiveRewriter.generateModuleFiles: go.mod path -> content
generateModuleFiles(r) ==
    LET mods == {m \in DOMAIN r.modules : ~isStdlib(m) /\ moduleHasDecls(r, m)}
        ModOf(f) == CHOOSE m \in mods : PathJoin(PathJoin(config.OutputDir, m), "go.mod") = f
    IN  [f \in {PathJoin(PathJoin(config.OutputDir, m), "go.mod") : m \in mods} |->
            [Module |-> ModOf(f), Go |-> "1.21", Require |-> {}]]

\* variant of importBlock: only the paths of loaded packages are kept
importBlock_OnlyLoaded(r, pkgInfo) ==
    {ImportSpec(IF pkgInfo.Imports[path] # Base(path)
                   /\ ~HasSuffix(path, "/" \o pkgInfo.Imports[path])
                THEN pkgInfo.Imports[path] ELSE "",
                path) :
        path \in {p \in DOMAIN pkgInfo.Imports : p \in DOMAIN r.packages}}

\* the import block generateOutput builds for one package
importBlock(r, pkgInfo) ==
    {ImportSpec(IF pkgInfo.Imports[path] # Base(path)
                   /\ ~HasSuffix(path, "/" \o pkgInfo.Imports[path])
                THEN pkgInfo.Imports[path] ELSE "",
                path) :
        path \in {p \in DOMAIN pkgInfo.Imports :
                    ~(p \notin DOMAIN r.packages /\ ~isStdlib(p))}}

\* variant of generateOutput: every package is written to <outputDir>/types.go
generateOutput_Flat(r) ==
    LET pkgs == {p \in DOMAIN r.packages : DOMAIN r.packages[p].Decls # {}}
        OutputFile(p) == PathJoin(config.OutputDir, "types.go")
        PkgOf(f) == CHOOSE p \in pkgs : OutputFile(p) = f
    IN  [mods |-> generateModuleFiles(r),
         files |-> [f \in {OutputFile(p) : p \in pkgs} |->
            LET pkgInfo == r.packages[PkgOf(f)]
            IN  [Source |-> PkgOf(f),
                 Name |-> pkgInfo.Pkg.Name,
                 Imports |-> importBlock(r, pkgInfo),
                 Decls |-> [n \in DOMAIN pkgInfo.Decls |-> pkgInfo.Decls[n].Decl]]]]

\* RecursiveRewriter.generateOutput: the go.mod files and the types.go files
generateOutput(r) ==
    LET pkgs == {p \in DOMAIN r.packages : DOMAIN r.packages[p].Decls # {}}
        OutputFile(p) ==
            PathJoin(PathJoin(config.OutputDir, r.packages[p].OutputSubdir), "types.go")
        PkgOf(f) == CHOOSE p \in pkgs : OutputFile(p) = f
    IN  [mods |-> generateModuleFiles(r),
         files |-> [f \in {OutputFile(p) : p \in pkgs} |->
            LET pkgInfo == r.packages[PkgOf(f)]
            IN  [Source |-> PkgOf(f),
                 Name |-> pkgInfo.Pkg.Name,
                 Imports |-> importBlock(r, pkgInfo),
                 Decls |-> [n \in DOMAIN pkgInfo.Decls |-> pkgInfo.Decls[n].Decl]]]]

\* RecursiveRewriter.updateGoModReplaces: the manager after the AddReplace loop
updateGoModReplaces(r, m) ==
    LET modulePaths == {mp \in DOMAIN r.modules : ~isStdlib(mp) /\ moduleHasDecls(r, mp)}
        RelPath(mp) ==
            LET relPath == PathJoin(config.OutputDir, mp)
            IN  IF ~HasPrefix(relPath, "/") /\ ~HasPrefix(relPath, ".")
                THEN "./" \o relPath ELSE relPath
    IN  [m EXCEPT !.Replace =
            [o \in (DOMAIN @) \cup modulePaths |->
                IF o \in modulePaths THEN RelPath(o) ELSE @[o]]]

\* ------------------------------------------------------------------------
\* The state machine.

VARIABLES
    pc,             \* where RewriteRecursive stands
    packages,       \* r.packages
    pendingTypes,   \* r.pendingTypes
    processedTypes, \* r.processedTypes (the keys that are true)
    modules,        \* r.modules
    loadCalls,      \* the paths passed to packages.Load, in call order
    extractCalls,   \* the references passed to extractType, in call order
    lastOp,         \* what the last step did
    goModDisk,      \* the consumer's go.mod on disk
    goMod,          \* the GoModManager of the run
    genFiles,       \* generated types.go files: path -> content
    genMods         \* generated go.mod files: path -> content

vars == <<world, config, iterOrder, pc, packages, pendingTypes, processedTypes,
          modules, loadCalls, extractCalls, lastOp, goModDisk, goMod,
          genFiles, genMods>>

\* the rewriter as one value
R == [packages |-> packages, pendingTypes |-> pendingTypes,
      processedTypes |-> processedTypes, modules |-> modules,
      loadCalls |-> loadCalls, extractCalls |-> extractCalls]

SetR(r) ==
    /\ packages' = r.packages
    /\ pendingTypes' = r.pendingTypes
    /\ processedTypes' = r.processedTypes
    /\ modules' = r.modules
    /\ loadCalls' = r.loadCalls
    /\ extractCalls' = r.extractCalls

NoRef == TypeRef("", "")

NoDecl == GenDecl("", <<>>)

\* lastOp: the step taken, the reference it popped or recorded, the
\* declaration it was handed
Op(op, ref, decl) == [op |-> op, ref |-> ref, decl |-> decl]

NoOp == Op("none", NoRef, NoDecl)

Init ==
    /\ \/ \E sc \in Scenarios :
            /\ world = sc.world
            /\ config = sc.config
            /\ iterOrder \in IterOrders(sc.world)
            /\ goModDisk = StaleGoMod
       \/ \E sc \in SmallScenarios :
            /\ world = sc.world
            /\ config = sc.config
            /\ iterOrder \in IterOrders(sc.world)
            /\ goModDisk \in GoModFiles
    /\ pc = "start"
    /\ packages = EmptyMap
    /\ pendingTypes = <<>>
    /\ processedTypes = {}
    /\ modules = EmptyMap
    /\ loadCalls = <<>>
    /\ extractCalls = <<>>
    /\ lastOp = NoOp
    /\ goMod = [ok |-> FALSE, Replace |-> EmptyMap]
    /\ genFiles = EmptyMap
    /\ genMods = EmptyMap

\* variant of Start: a go.mod that is missing or unparsable ends the run
Start_GoModRequired ==
    /\ pc = "start"
    /\ pc' = IF NewGoModManager(goModDisk).ok THEN "loop" ELSE "failed"
    /\ pendingTypes' = Append(pendingTypes, TypeRef(config.PackagePath, config.TypeName))
    /\ LET m == NewGoModManager(goModDisk)
       IN  IF m.ok /\ DOMAIN GetReplaces(m) # {}
           THEN /\ goMod' = dropAllReplaces(m)
                /\ goModDisk' = [goModDisk EXCEPT !.Replace = dropAllReplaces(m).Replace]
           ELSE /\ goMod' = m
                /\ UNCHANGED goModDisk
    /\ lastOp' = Op("start", TypeRef(config.PackagePath, config.TypeName), NoDecl)
    /\ UNCHANGED <<world, config, iterOrder, packages, processedTypes, modules,
                   loadCalls, extractCalls, genFiles, genMods>>

\* variant of Start: the replace directives are dropped from the manager,
\* go.mod is not saved before the loop
Start_NoSave ==
    /\ pc = "start"
    /\ pc' = "loop"
    /\ pendingTypes' = Append(pendingTypes, TypeRef(config.PackagePath, config.TypeName))
    /\ LET m == NewGoModManager(goModDisk)
       IN  IF m.ok /\ DOMAIN GetReplaces(m) # {}
           THEN goMod' = dropAllReplaces(m)
           ELSE goMod' = m
    /\ UNCHANGED goModDisk
    /\ lastOp' = Op("start", TypeRef(config.PackagePath, config.TypeName), NoDecl)
    /\ UNCHANGED <<world, config, iterOrder, packages, processedTypes, modules,
                   loadCalls, extractCalls, genFiles, genMods>>

\* RewriteRecursive up to the driver loop: the queue is seeded with the
\* requested type; go.mod, when found and parsed, loses its replace directives
Start ==
    /\ pc = "start"
    /\ pc' = "loop"
    /\ pendingTypes' = Append(pendingTypes, TypeRef(config.PackagePath, config.TypeName))
    /\ LET m == NewGoModManager(goModDisk)
       IN  IF m.ok /\ DOMAIN GetReplaces(m) # {}
           THEN /\ goMod' = dropAllReplaces(m)
                /\ goModDisk' = [goModDisk EXCEPT !.Replace = dropAllReplaces(m).Replace]
           ELSE /\ goMod' = m
                /\ UNCHANGED goModDisk
    /\ lastOp' = Op("start", TypeRef(config.PackagePath, config.TypeName), NoDecl)
    /\ UNCHANGED <<world, config, iterOrder, packages, processedTypes, modules,
                   loadCalls, extractCalls, genFiles, genMods>>

\* one iteration of the driver loop
Process ==
    /\ pc = "loop"
    /\ Len(pendingTypes) > 0
    /\ LET out == processNext(R, iterOrder)
       IN  /\ SetR(out.r)
           /\ pc' = IF out.err THEN "failed" ELSE "loop"
           /\ lastOp' = Op(out.op, pendingTypes[1], NoDecl)
    /\ UNCHANGED <<world, config, iterOrder, goModDisk, goMod, genFiles, genMods>>

\* the queue is empty: generateOutput
Generate ==
    /\ pc = "loop"
    /\ Len(pendingTypes) = 0
    /\ LET out == generateOutput(R)
       IN  /\ genFiles' = out.files
           /\ genMods' = out.mods
    /\ pc' = IF goMod.ok THEN "update" ELSE "done"
    /\ lastOp' = Op("generate", NoRef, NoDecl)
    /\ UNCHANGED <<world, config, iterOrder, packages, pendingTypes, processedTypes,
                   modules, loadCalls, extractCalls, goModDisk, goMod>>

\* updateGoModReplaces, and the Save that ends it
Update ==
    /\ pc = "update"
    /\ goMod' = updateGoModReplaces(R, goMod)
    /\ goModDisk' = [goModDisk EXCEPT !.Replace = updateGoModReplaces(R, goMod).Replace]
    /\ pc' = "done"
    /\ lastOp' = Op("update", NoRef, NoDecl)
    /\ UNCHANGED <<world, config, iterOrder, packages, pendingTypes, processedTypes,
                   modules, loadCalls, extractCalls, genFiles, genMods>>

Next == Start \/ Process \/ Generate \/ Update

Spec == Init /\ [][Next]_vars

\* ------------------------------------------------------------------------
\* The type-reference graph of the source universe, by the rules of the
\* language (what the claims call a reference), not by the walker.

\* the identifiers and qualified identifiers of a type expression
RECURSIVE TypeLeaves(_)
FieldLeaves(fields) == UNION {TypeLeaves(fields[i].Type) : i \in 1..Len(fields)}

TypeLeaves(expr) ==
    CASE expr.kind \in {"Ident", "SelectorExpr"} -> {expr}
      [] expr.kind = "StarExpr" -> TypeLeaves(expr.X)
      [] expr.kind \in {"ArrayType", "Ellipsis"} -> TypeLeaves(expr.Elt)
      [] expr.kind = "MapType" -> TypeLeaves(expr.Key) \cup TypeLeaves(expr.Value)
      [] expr.kind = "StructType" -> FieldLeaves(expr.Fields)
      [] expr.kind = "InterfaceType" -> FieldLeaves(expr.Methods)
      [] expr.kind = "FuncType" -> FieldLeaves(expr.Params) \cup FieldLeaves(expr.Results)
      [] expr.kind = "ChanType" -> TypeLeaves(expr.Value)
      [] expr.kind = "IndexExpr" -> TypeLeaves(expr.X) \cup TypeLeaves(expr.Index)
      [] OTHER -> {}

\* where the types of the universe are declared: <<path, file, decl, spec>>
TypeSites ==
    {t \in (DOMAIN world) \X (1..2) \X (1..4) \X (1..4) :
        /\ t[2] <= Len(world[t[1]].Syntax)
        /\ t[3] <= Len(world[t[1]].Syntax[t[2]].Decls)
        /\ t[4] <= Len(world[t[1]].Syntax[t[2]].Decls[t[3]].Specs)}

SiteSpec(t) == world[t[1]].Syntax[t[2]].Decls[t[3]].Specs[t[4]]

SiteRef(t) == TypeRef(t[1], SiteSpec(t).Name)

DeclaredTypes == {SiteRef(t) : t \in TypeSites}

\* the import paths the file of site t binds the package name `name` to
FileBinds(t, name) ==
    LET imports == world[t[1]].Syntax[t[2]].Imports
        NameOf(imp) ==
            IF imp.Name # "" THEN imp.Name
            ELSE IF imp.Path \in DOMAIN world THEN world[imp.Path].Name
            ELSE Base(imp.Path)
    IN  {imports[i].Path : i \in {j \in 1..Len(imports) : NameOf(imports[j]) = name}}

\* the named types the declaration at site t refers to
SiteRefs(t) ==
    UNION {IF leaf.kind = "Ident"
           THEN {TypeRef(t[1], leaf.Name)} \cap DeclaredTypes
           ELSE {TypeRef(path, leaf.Sel) : path \in FileBinds(t, leaf.X.Name)} :
           leaf \in TypeLeaves(SiteSpec(t).Type)}

GoRefs(tr) == UNION {SiteRefs(t) : t \in {u \in TypeSites : SiteRef(u) = tr}}

RECURSIVE ReachFrom(_)
ReachFrom(S) ==
    LET S2 == S \cup UNION {GoRefs(tr) : tr \in S}
    IN  IF S2 = S THEN S ELSE ReachFrom(S2)

RootRef == TypeRef(config.PackagePath, config.TypeName)

\* the transitive closure of the requested type
Closure == ReachFrom({RootRef})

OnCycle(tr) == tr \in ReachFrom(GoRefs(tr))

\* the type names declared anywhere in the universe
TypeNames == {SiteSpec(t).Name : t \in TypeSites}

\* the (package, type name) pairs the generated files declare
Emitted ==
    UNION {{TypeRef(genFiles[f].Source, genFiles[f].Decls[n].Specs[i].Name) :
               i \in 1..Len(genFiles[f].Decls[n].Specs)} :
           <<f, n>> \in {t \in (DOMAIN genFiles) \X TypeNames :
                           t[2] \in DOMAIN genFiles[t[1]].Decls}}

\* how many declarations of tr the generated files hold
EmittedCount(tr) ==
    Cardinality({t \in (DOMAIN genFiles) \X TypeNames \X (1..4) :
        /\ genFiles[t[1]].Source = tr.PackagePath
        /\ t[2] \in DOMAIN genFiles[t[1]].Decls
        /\ t[3] <= Len(genFiles[t[1]].Decls[t[2]].Specs)
        /\ genFiles[t[1]].Decls[t[2]].Specs[t[3]].Name = tr.TypeName})

\* ------------------------------------------------------------------------
\* collectTypeDecl on its own: package g of RedeclWorld is loaded, and every
\* step hands collectTypeDecl one of the package's type declarations.

InitCollect ==
    LET loaded == loadPackageInfo(
                    [packages |-> EmptyMap, pendingTypes |-> <<>>,
                     processedTypes |-> {}, modules |-> EmptyMap,
                     loadCalls |-> <<>>, extractCalls |-> <<>>], PathG)
    IN  /\ world = RedeclWorld
        /\ config = Config(PathG, "Leaf")
        /\ iterOrder \in IterOrders(RedeclWorld)
        /\ goModDisk = [state |-> "missing", Replace |-> EmptyMap]
        /\ pc = "collect"
        /\ packages = loaded.r.packages
        /\ pendingTypes = <<>>
        /\ processedTypes = {}
        /\ modules = loaded.r.modules
        /\ loadCalls = loaded.r.loadCalls
        /\ extractCalls = <<>>
        /\ lastOp = NoOp
        /\ goMod = [ok |-> FALSE, Replace |-> EmptyMap]
        /\ genFiles = EmptyMap
        /\ genMods = EmptyMap

\* the call of collectTypeDecl in extractType, for the TypeSpec at site t
CollectDecl ==
    /\ pc = "collect"
    /\ \E t \in TypeSites :
        /\ t[1] \in DOMAIN packages
        /\ packages' = [packages EXCEPT ![t[1]] =
                collectTypeDecl(@, SiteSpec(t).Name,
                                world[t[1]].Syntax[t[2]].Decls[t[3]],
                                world[t[1]].Syntax[t[2]].FileName)]
        /\ lastOp' = Op("collect", SiteRef(t), world[t[1]].Syntax[t[2]].Decls[t[3]])
    /\ UNCHANGED <<world, config, iterOrder, pc, pendingTypes, processedTypes,
                   modules, loadCalls, extractCalls, goModDisk, goMod,
                   genFiles, genMods>>

NextCollect == CollectDecl

SpecCollect == InitCollect /\ [][NextCollect]_vars

\* The import resolver on its own: loadPackageInfo of a package whose files
\* hold the import declarations drawn in the initial state.
InitResolve ==
    /\ \E imports1 \in ImportLists(MaxImports) \ {<<>>}, imports2 \in ImportLists(1) :
            world = ResolverWorld(imports1, imports2)
    /\ config = Config(PathP, "A")
    /\ iterOrder = SeqOfSet(ImportPathsOf(world))
    /\ goModDisk = [state |-> "missing", Replace |-> EmptyMap]
    /\ pc = "load"
    /\ packages = EmptyMap
    /\ pendingTypes = <<>>
    /\ processedTypes = {}
    /\ modules = EmptyMap
    /\ loadCalls = <<>>
    /\ extractCalls = <<>>
    /\ lastOp = NoOp
    /\ goMod = [ok |-> FALSE, Replace |-> EmptyMap]
    /\ genFiles = EmptyMap
    /\ genMods = EmptyMap

\* loadPackageInfo(config.PackagePath), with its collectSourceImports loop
LoadPackage ==
    /\ pc = "load"
    /\ SetR(loadPackageInfo(R, config.PackagePath).r)
    /\ pc' = "loaded"
    /\ lastOp' = Op("load", TypeRef(config.PackagePath, ""), NoDecl)
    /\ UNCHANGED <<world, config, iterOrder, goModDisk, goMod, genFiles, genMods>>

NextResolve == LoadPackage

SpecResolve == InitResolve /\ [][NextResolve]_vars

\* ------------------------------------------------------------------------
\* C1..C10.

\* C1: on an acyclic type graph, after a successful run the declarations
\* emitted are exactly the transitive closure of the requested type minus the
\* types of standard-library packages.
C1_EmittedIsClosure ==
    (pc = "done" /\ \A tr \in Closure : ~OnCycle(tr))
        => Emitted = {tr \in Closure : ~isStdlib(tr.PackagePath)}


\* C2: on a type graph with a cycle the driver loop ends with an empty queue
\* and every type on the cycle is emitted exactly once.
C2_CycleEmittedOnce ==
    pc \in {"update", "done"} =>
        /\ Len(pendingTypes) = 0
        /\ \A tr \in Closure :
            (OnCycle(tr) /\ ~isStdlib(tr.PackagePath)) => EmittedCount(tr) = 1

\* C3: a popped non-standard-library reference whose type is not declared in
\* its package ends the run with an error, is never skipped, and leaves no
\* generated source file and no generated go.mod.
C3_MissingTypeIsFatal ==
    /\ [][(/\ pc = "loop"
           /\ Len(pendingTypes) > 0
           /\ String(pendingTypes[1]) \notin processedTypes
           /\ Contains(pendingTypes[1].PackagePath, ".")
           /\ pendingTypes[1] \notin DeclaredTypes)
          => (/\ pc' = "failed"
              /\ String(pendingTypes[1]) \notin processedTypes')]_vars
    /\ [](pc = "failed" => (DOMAIN genFiles = {} /\ DOMAIN genMods = {}))
    /\ [][pc = "failed" => pc' = "failed"]_vars

\* a dependency found during the walk is missing, after other types had
\* been recorded
C3_Witness ==
    /\ pc = "failed"
    /\ lastOp.op = "extract"
    /\ lastOp.ref # RootRef
    /\ lastOp.ref \notin DeclaredTypes
    /\ \E p \in DOMAIN packages : DOMAIN packages[p].Decls # {}

\* C4: a popped reference whose package path has no '.' is marked processed;
\* no such package is ever loaded, gets a package or module record, or has a
\* declaration emitted.
C4_StdlibNeverLoaded ==
    /\ \A i \in 1..Len(loadCalls) : Contains(loadCalls[i], ".")
    /\ \A p \in DOMAIN packages : Contains(p, ".")
    /\ \A m \in DOMAIN modules : \A i \in 1..Len(modules[m].Packages) :
            Contains(modules[m].Packages[i], ".")
    /\ \A f \in DOMAIN genFiles : Contains(genFiles[f].Source, ".")
    /\ (lastOp.op \in {"skip", "stdlib", "extract"}
        /\ ~Contains(lastOp.ref.PackagePath, "."))
            => (lastOp.op # "extract" /\ String(lastOp.ref) \in processedTypes)

\* a standard-library reference found by a walk has been popped
C4_Witness ==
    /\ lastOp.op = "stdlib"
    /\ lastOp.ref = TypeRef(PathTime, "Time")
    /\ String(lastOp.ref) \in processedTypes
    /\ DOMAIN packages # {}

\* C5 as stated: no reference is at once in the pending queue and in the
\* processed-set.
C5_QueueProcessedDisjoint ==
    \A i \in 1..Len(pendingTypes) : String(pendingTypes[i]) \notin processedTypes

\* C5 amended: a reference that is at once queued and processed is a type
\* whose own declaration refers to itself (it was re-enqueued by the walk of
\* its own extraction, before it was marked processed).
C5_QueuedProcessedIsSelfRef ==
    \A i \in 1..Len(pendingTypes) :
        String(pendingTypes[i]) \in processedTypes
            => pendingTypes[i] \in GoRefs(pendingTypes[i])

\* a processed self-referential type waits in the queue behind another one
C5_Witness ==
    /\ Len(pendingTypes) >= 2
    /\ String(pendingTypes[Len(pendingTypes)]) \in processedTypes
    /\ String(pendingTypes[1]) \notin processedTypes

\* C6: the pending queue never holds the same reference twice.
C6_QueueHasNoDuplicate ==
    \A i, j \in 1..Len(pendingTypes) :
        i # j => pendingTypes[i] # pendingTypes[j]

\* two extracted declarations refer to one reference that is still queued:
\* the second queueType call for it found it in the queue
C6_Witness ==
    \E i \in 1..Len(pendingTypes) : \E a, b \in 1..Len(extractCalls) :
        /\ a # b
        /\ pendingTypes[i] \in GoRefs(extractCalls[a]) \cap GoRefs(extractCalls[b])
        /\ String(extractCalls[a]) \in processedTypes
        /\ String(extractCalls[b]) \in processedTypes

\* C7: the processed-set only grows, and no reference is handed to
\* extractType twice in a run.
C7_ExtractedAtMostOnce ==
    /\ [][processedTypes \subseteq processedTypes']_vars
    /\ [](\A i, j \in 1..Len(extractCalls) :
            i # j => extractCalls[i] # extractCalls[j])
    /\ [][\A i \in 1..Len(extractCalls') :
            i > Len(extractCalls) => String(extractCalls'[i]) \notin processedTypes]_vars

\* an extracted reference was popped a second time and discarded
C7_Witness ==
    /\ lastOp.op = "skip"
    /\ \E i \in 1..Len(extractCalls) : extractCalls[i] = lastOp.ref
    /\ Len(extractCalls) >= 2

\* C8: a package is loaded at most once; loadPackageInfo for a path that has
\* a record returns the rewriter unchanged (same record, declarations and
\* imports kept, module registry untouched, no load).
C8_LoadIsIdempotent ==
    /\ \A i, j \in 1..Len(loadCalls) : i # j => loadCalls[i] # loadCalls[j]
    /\ \A p \in DOMAIN packages : loadPackageInfo(R, p) = [r |-> R, err |-> FALSE]
    /\ \A p \in DOMAIN packages :
            Cardinality({t \in (DOMAIN modules) \X (1..Len(loadCalls)) :
                            /\ t[2] <= Len(modules[t[1]].Packages)
                            /\ modules[t[1]].Packages[t[2]] = p}) = 1

\* a second type of a loaded package has been extracted: its extractType
\* call found the package record
C8_Witness ==
    /\ lastOp.op = "extract"
    /\ pc = "loop"
    /\ \E i \in 1..Len(extractCalls) :
        /\ extractCalls[i].PackagePath = lastOp.ref.PackagePath
        /\ extractCalls[i] # lastOp.ref
    /\ DOMAIN packages[lastOp.ref.PackagePath].Imports # {}

\* C9: a type name has at most one declaration record in its package record,
\* and collectTypeDecl for a name that is recorded leaves the record and the
\* rest of the package record as they are.
C9_RediscoveryIsNoOp ==
    /\ [](\A p \in DOMAIN packages : \A n \in DOMAIN packages[p].Decls :
            packages[p].Decls[n].Name = n)
    /\ [][\A p \in DOMAIN packages : \A n \in DOMAIN packages[p].Decls :
            /\ n \in DOMAIN packages'[p].Decls
            /\ packages'[p].Decls[n] = packages[p].Decls[n]]_vars
    /\ [][(/\ lastOp'.op = "collect"
           /\ lastOp'.ref.TypeName \in DOMAIN packages[lastOp'.ref.PackagePath].Decls)
          => packages' = packages]_vars

\* collectTypeDecl was handed another declaration of a recorded name, and the
\* record still holds the first one
C9_Witness ==
    /\ lastOp.op = "collect"
    /\ lastOp.ref.TypeName \in DOMAIN packages[lastOp.ref.PackagePath].Decls
    /\ packages[lastOp.ref.PackagePath].Decls[lastOp.ref.TypeName].Decl # lastOp.decl

\* C10: the import block of every emitted file holds only standard-library
\* paths and paths of packages emitted with at least one declaration.
C10_ImportsAreEmittedOrStdlib ==
    \A f \in DOMAIN genFiles : \A imp \in genFiles[f].Imports :
        \/ ~Contains(imp.Path, ".")
        \/ \E g \in DOMAIN genFiles :
            /\ genFiles[g].Source = imp.Path
            /\ DOMAIN genFiles[g].Decls # {}

\* an emitted file imports both a standard-library package and an emitted one
C10_Witness ==
    \E f \in DOMAIN genFiles :
        /\ \E imp \in genFiles[f].Imports : imp.Path = PathTime
        /\ \E imp \in genFiles[f].Imports : imp.Path = PathQ
        /\ \E g \in DOMAIN genFiles : genFiles[g].Source = PathQ

\* ------------------------------------------------------------------------
\* C11..C20.

\* the packages that hold at least one extracted declaration
PackagesWithDecls == {p \in DOMAIN packages : DOMAIN packages[p].Decls # {}}

\* the other packages the extracted declarations of package p refer to
ReferencedPackages(p) ==
    {tr.PackagePath :
        tr \in UNION {GoRefs(TypeRef(p, n)) : n \in DOMAIN packages[p].Decls}} \ {p}

\* no generated file holds declarations of package q
NoOutputFor(q) == \A f \in DOMAIN genFiles : genFiles[f].Source # q

\* the paths of the import block of the generated file f
ImportPaths(f) == {sp.Path : sp \in genFiles[f].Imports}

C12_OneFilePerPackage ==
    pc = "done" =>
        /\ DOMAIN genFiles =
            {config.OutputDir \o "/" \o p \o "/types.go" : p \in PackagesWithDecls}
        /\ \A p \in PackagesWithDecls :
            /\ Cardinality({f \in DOMAIN genFiles : genFiles[f].Source = p}) = 1
            /\ genFiles[config.OutputDir \o "/" \o p \o "/types.go"].Source = p

C12_Witness ==
    /\ pc = "done"
    /\ Cardinality(PackagesWithDecls) >= 2
    /\ Cardinality(DOMAIN genFiles) = Cardinality(PackagesWithDecls)

\* the module that owns package p: the loader's module path, or the package
\* path when the loader has no module metadata
OwningModule(p) == IF world[p].Module # "" THEN world[p].Module ELSE p

\* C13: after a successful run a manifest (module path, go 1.21, no
\* requirements) is generated for every module that owns a package with an
\* extracted declaration and for no other module, and every generated
\* source file lies under the directory of a generated manifest.
C13_ManifestPerModule ==
    pc = "done" =>
        /\ DOMAIN genMods =
            {config.OutputDir \o "/" \o OwningModule(p) \o "/go.mod" :
                p \in PackagesWithDecls}
        /\ \A p \in PackagesWithDecls :
            genMods[config.OutputDir \o "/" \o OwningModule(p) \o "/go.mod"] =
                [Module |-> OwningModule(p), Go |-> "1.21", Require |-> {}]
        /\ \A f \in DOMAIN genFiles : \E g \in DOMAIN genMods :
            HasPrefix(f, SubSeq(g, 1, Len(g) - Len("go.mod")))

\* the packages for which a source file was generated
GeneratedPackages == {genFiles[f].Source : f \in DOMAIN genFiles}

\* the import paths of the file generated for package p
ImportPathsOfPackage(p) ==
    UNION {ImportPaths(f) : f \in {g \in DOMAIN genFiles : genFiles[g].Source = p}}

\* C14 (as stated): requesting Application, whose struct has a field of a
\* type of package health and a field of type runtime.RawExtension, succeeds
\* with three generated packages, an import block of Application's package
\* holding exactly the two dependency paths, and exactly two generated module
\* manifests.
C14_ApplicationScenario ==
    world = ApplicationWorld =>
        /\ pc # "failed"
        /\ pc = "done" =>
            /\ GeneratedPackages = {PathApp, PathHealth, PathRuntime}
            /\ ImportPathsOfPackage(PathApp) = {PathHealth, PathRuntime}
            /\ Cardinality(DOMAIN genMods) = 2

\* C14 (amended): in that scenario, with the three packages in three
\* modules, the run succeeds with three generated packages, an import block
\* of Application's package holding exactly the two dependency paths, and
\* three generated module manifests: one for each of the three modules, the
\* module of Application's package included.
C14_ApplicationThreeManifests ==
    world = ApplicationWorld =>
        /\ pc # "failed"
        /\ pc = "done" =>
            /\ GeneratedPackages = {PathApp, PathHealth, PathRuntime}
            /\ ImportPathsOfPackage(PathApp) = {PathHealth, PathRuntime}
            /\ {genMods[g].Module : g \in DOMAIN genMods} =
                    {OwningModule(p) : p \in {PathApp, PathHealth, PathRuntime}}
            /\ Cardinality(DOMAIN genMods) = 3

C14_Witness ==
    /\ world = ApplicationWorld
    /\ pc = "done"
    /\ Cardinality(DOMAIN genFiles) = 3
    /\ Cardinality(DOMAIN genMods) = 3

\* filepath.Clean of a relative path written with a leading "./"
TrimDotSlash(p) == IF HasPrefix(p, "./") THEN SubSeq(p, 3, Len(p)) ELSE p

\* C15: after a successful run with a go.mod that was found and parsed, the
\* replace directives of the go.mod are exactly one per module that owns a
\* generated package, each pointing at <outputDir>/<modulePath>; no directive
\* from before the run is left.
C15_ReplacePerGeneratedModule ==
    (pc = "done" /\ goModDisk.state = "ok") =>
        /\ DOMAIN goModDisk.Replace = {OwningModule(p) : p \in GeneratedPackages}
        /\ \A m \in DOMAIN goModDisk.Replace :
            TrimDotSlash(goModDisk.Replace[m]) =
                TrimDotSlash(config.OutputDir \o "/" \o m)

\* the driver loop of RewriteRecursive run to its end
RECURSIVE driveLoop(_, _)
driveLoop(r, ord) ==
    IF Len(r.pendingTypes) = 0 THEN [r |-> r, err |-> FALSE]
    ELSE LET out == processNext(r, ord)
         IN  IF out.err THEN [r |-> out.r, err |-> TRUE]
             ELSE driveLoop(out.r, ord)

\* the extraction of the requested type as a function of the sources, the
\* request and the iteration order alone
Extraction ==
    driveLoop([packages |-> EmptyMap,
               pendingTypes |-> <<TypeRef(config.PackagePath, config.TypeName)>>,
               processedTypes |-> {}, modules |-> EmptyMap,
               loadCalls |-> <<>>, extractCalls |-> <<>>], iterOrder)

\* C16: a go.mod that cannot be found or parsed is not fatal: the run fails
\* only if the extraction itself fails, it extracts the references and writes
\* the source files and manifests that depend on the sources and the request
\* alone (the same as with a go.mod present), and it never writes go.mod.
C16_MissingGoModIsNotFatal ==
    /\ [](goModDisk.state # "ok" =>
            /\ pc = "failed" => Extraction.err
            /\ pc = "done" =>
                /\ ~Extraction.err
                /\ processedTypes = Extraction.r.processedTypes
                /\ genFiles = generateOutput(Extraction.r).files
                /\ genMods = generateOutput(Extraction.r).mods)
    /\ [](pc = "done" =>
            /\ genFiles = generateOutput(Extraction.r).files
            /\ genMods = generateOutput(Extraction.r).mods)
    /\ [][goModDisk.state # "ok" => goModDisk' = goModDisk /\ pc' # "update"]_vars

C16_Witness ==
    /\ goModDisk.state \in {"missing", "unparsable"}
    /\ pc = "done"
    /\ Cardinality(DOMAIN genFiles) >= 2
    /\ Cardinality(DOMAIN genMods) >= 2

\* the import declarations of the package of the request, in the order in
\* which loadPackageInfo scans them
RECURSIVE ImportsOfFiles(_)
ImportsOfFiles(files) ==
    IF Len(files) = 0 THEN <<>>
    ELSE files[1].Imports \o ImportsOfFiles(Tail(files))

Scanned == ImportsOfFiles(world[config.PackagePath].Syntax)

\* the segments of an import path and the last of them
Segments(path) == Split(Trim(path, "/"), "/")

LastSegment(path) == Segments(path)[Len(Segments(path))]

\* the aliases the resolver recorded for a path
RecordedAliases(pkgInfo, path) ==
    IF path \in DOMAIN pkgInfo.SourceImports
    THEN Range(pkgInfo.SourceImports[path]) ELSE {}

\* the name an import declaration claims: its alias, or the last segment
ClaimedName(imp) == IF imp.Name # "" THEN imp.Name ELSE LastSegment(imp.Path)

\* C17: an import written without alias is recorded under the last segment
\* of its path in the path-to-aliases map, and the reverse map binds that
\* segment to the path unless an import of another path claims the same name.
C17_NoAliasIsLastSegment ==
    pc = "loaded" =>
        \A i \in 1..Len(Scanned) :
            Scanned[i].Name = "" =>
                /\ LastSegment(Scanned[i].Path) \in
                        RecordedAliases(packages[config.PackagePath], Scanned[i].Path)
                /\ (\A j \in 1..Len(Scanned) :
                        Scanned[j].Path # Scanned[i].Path
                            => ClaimedName(Scanned[j]) # LastSegment(Scanned[i].Path))
                    => /\ LastSegment(Scanned[i].Path) \in
                            DOMAIN packages[config.PackagePath].NameToPath
                       /\ packages[config.PackagePath].NameToPath[
                            LastSegment(Scanned[i].Path)] = Scanned[i].Path

C17_Witness ==
    /\ pc = "loaded"
    /\ \E i \in 1..Len(Scanned) :
        /\ Scanned[i].Name = ""
        /\ \A j \in 1..Len(Scanned) :
                Scanned[j].Path # Scanned[i].Path
                    => ClaimedName(Scanned[j]) # LastSegment(Scanned[i].Path)
        /\ packages[config.PackagePath].NameToPath["q"] = Scanned[i].Path
        /\ \E j \in 1..Len(Scanned) : Scanned[j].Path # Scanned[i].Path

\* the resolution results hold no mangled alias of `path`, and hold exactly
\* the other names the imports of `path` claim
NoMangledAlias(pkgInfo, path) ==
    /\ Mangled(path) \notin RecordedAliases(pkgInfo, path)
    /\ Mangled(path) \notin DOMAIN pkgInfo.NameToPath
    /\ RecordedAliases(pkgInfo, path) =
        {ClaimedName(Scanned[i]) :
            i \in {j \in 1..Len(Scanned) : /\ Scanned[j].Path = path
                                           /\ Scanned[j].Name # Mangled(path)}}

\* C18 (as stated): the mangled alias of an import path is in no resolution
\* result: an import with only that alias adds no entry for the path, and
\* with a genuine alias beside it only the genuine alias is recorded, in
\* either order.
C18_MangledNeverRecorded ==
    pc = "loaded" =>
        \A i \in 1..Len(Scanned) :
            NoMangledAlias(packages[config.PackagePath], Scanned[i].Path)

\* C18 (amended): the same, for import paths of at least three segments.
C18_MangledOfLongPathNeverRecorded ==
    pc = "loaded" =>
        \A i \in 1..Len(Scanned) :
            Len(Segments(Scanned[i].Path)) >= 3 =>
                NoMangledAlias(packages[config.PackagePath], Scanned[i].Path)

C18_Witness ==
    /\ pc = "loaded"
    /\ \E i, j \in 1..Len(Scanned) :
        /\ i < j
        /\ Scanned[i].Path = Scanned[j].Path
        /\ Len(Segments(Scanned[i].Path)) >= 3
        /\ Scanned[i].Name = Mangled(Scanned[i].Path)
        /\ Scanned[j].Name = "alt"
        /\ RecordedAliases(packages[config.PackagePath], Scanned[i].Path) = {"alt"}

\* the alias looks mechanically generated: the path has at least three
\* segments and the alias holds the mangled path or two underscores
LooksMechanical(alias, path) ==
    /\ Len(Segments(path)) >= 3
    /\ Contains(alias, Mangled(path)) \/ Count(alias, "_") >= 2

\* the name an import declaration of the generated file binds: its alias,
\* or the name the imported package declares
BoundName(sp) == IF sp.Name # "" THEN sp.Name ELSE world[sp.Path].Name

\* the import declarations of package p with an explicit alias that does not
\* look mechanical and through which an extracted declaration of p refers to
\* the imported package
UsedAliasImports(p) ==
    {imp \in UNION {Range(world[p].Syntax[f].Imports) : f \in 1..Len(world[p].Syntax)} :
        /\ imp.Name # ""
        /\ ~LooksMechanical(imp.Name, imp.Path)
        /\ \E t \in TypeSites :
            /\ t[1] = p
            /\ SiteSpec(t).Name \in DOMAIN packages[p].Decls
            /\ imp \in Range(world[p].Syntax[t[2]].Imports)
            /\ \E leaf \in TypeLeaves(SiteSpec(t).Type) :
                leaf.kind = "SelectorExpr" /\ leaf.X.Name = imp.Name}

\* C19: an import written with a human-chosen alias is recorded under that
\* alias, and when an extracted declaration refers to the imported package
\* through the alias, the import block of the generated file binds that alias
\* to the path.
C19_HumanAliasEmitted ==
    pc = "done" =>
        \A f \in DOMAIN genFiles :
            \A imp \in UsedAliasImports(genFiles[f].Source) :
                /\ imp.Name \in RecordedAliases(packages[genFiles[f].Source], imp.Path)
                /\ \E sp \in genFiles[f].Imports :
                        sp.Path = imp.Path /\ BoundName(sp) = imp.Name

\* the import declarations that claim `name` and are not discarded as
\* mechanical
ClaimsOf(name) ==
    {i \in 1..Len(Scanned) :
        /\ ClaimedName(Scanned[i]) = name
        /\ ~(Scanned[i].Name # "" /\ LooksMechanical(Scanned[i].Name, Scanned[i].Path))}

\* C20: when imports of two different paths claim one name and at least one
\* of them does so with an explicit alias, the reverse map binds the name to
\* a path that is imported under that name explicitly, whatever the order of
\* the imports.
C20_ExplicitWinsCollision ==
    pc = "loaded" =>
        \A name \in {ClaimedName(Scanned[i]) : i \in 1..Len(Scanned)} :
            (/\ Cardinality({Scanned[i].Path : i \in ClaimsOf(name)}) >= 2
             /\ \E i \in ClaimsOf(name) : Scanned[i].Name # "")
            => /\ name \in DOMAIN packages[config.PackagePath].NameToPath
               /\ packages[config.PackagePath].NameToPath[name] \in
                    {Scanned[i].Path : i \in {j \in ClaimsOf(name) : Scanned[j].Name # ""}}

\* ------------------------------------------------------------------------
\* C21..C30

\* the declaration the step extracted: the TypeSpec extractType found for ref
WalkedSpec(ref) == findTypeSpec(packagesLoad(ref.PackagePath), ref.TypeName).typeSpec

\* the step popped a reference and extracted its declaration
Extracts == pc = "loop" /\ lastOp'.op = "extract" /\ pc' = "loop"

\* the struct fields of expr whose type is a qualified identifier
SelectorFields(expr) ==
    IF expr.kind = "StructType"
    THEN {expr.Fields[i] : i \in {j \in 1..Len(expr.Fields) :
            /\ expr.Fields[j].Type.kind = "SelectorExpr"
            /\ expr.Fields[j].Type.X.kind = "Ident"}}
    ELSE {}

Occurrences(seq, x) == Cardinality({i \in 1..Len(seq) : seq[i] = x})

MaxEntries == 2

\* config.PackageEntry as yaml.Unmarshal fills it (a key the file leaves out
\* is the zero value)
PackageEntry(package, types) == [Package |-> package, Types |-> types]

\* what is at the config path: no readable file, no YAML, or a parsed
\* config.Config
ConfigFiles ==
    LET entries == {PackageEntry(package, types) :
                        package \in {"", PathP},
                        types \in {<<>>, <<"A">>, <<"A", "B">>, <<"">>}}
    IN  {[state |-> "unreadable"], [state |-> "malformed"]}
        \cup {[state |-> "ok", cfg |-> [Output |-> output, Packages |-> pkgs]] :
                output \in {"", OutputDir},
                pkgs \in UNION {[1..n -> entries] : n \in 0..MaxEntries}}

\* variant of the entry loop of Validate: the types of an entry are not looked at
validateEntries_PathOnly(pkgs, i) ==
    IF i > Len(pkgs) THEN ""
    ELSE IF pkgs[i].Package = "" THEN "package path is required for entry"
    ELSE ""

\* the loop over c.Packages of Config.Validate from entry i on: the error
\* returned, "" for nil
RECURSIVE validateEntries(_, _)
validateEntries(pkgs, i) ==
    IF i > Len(pkgs) THEN ""
    ELSE IF pkgs[i].Package = "" THEN "package path is required for entry"
    ELSE IF Len(pkgs[i].Types) = 0
    THEN "at least one type is required for package " \o pkgs[i].Package
    ELSE validateEntries(pkgs, i + 1)

\* Config.Validate: the error returned, "" for nil
Validate(c) ==
    IF c.Output = "" THEN "output directory is required"
    ELSE IF Len(c.Packages) = 0 THEN "at least one package entry is required"
    ELSE validateEntries(c.Packages, 1)

\* config.LoadConfig: [cfg, err]
LoadConfig(file) ==
    IF file.state = "unreadable" THEN [err |-> "failed to read config file"]
    ELSE IF file.state = "malformed" THEN [err |-> "failed to parse config file"]
    ELSE IF Validate(file.cfg) # "" THEN [err |-> "invalid config: " \o Validate(file.cfg)]
    ELSE [err |-> "", cfg |-> file.cfg]

\* the rewriter.Config list runFromConfigFile hands to the batch
RECURSIVE rewriterConfigs(_)
rewriterConfigs(pkgs) ==
    IF Len(pkgs) = 0 THEN <<>>
    ELSE [k \in 1..Len(pkgs[1].Types) |->
            [PackagePath |-> pkgs[1].Package, TypeName |-> pkgs[1].Types[k]]]
         \o rewriterConfigs(Tail(pkgs))

\* the state before runFromConfigFile: config holds what is at the config path
InitConfig ==
    /\ world = EmptyMap
    /\ config \in ConfigFiles
    /\ iterOrder = <<>>
    /\ goModDisk = [state |-> "missing", Replace |-> EmptyMap]
    /\ pc = "config"
    /\ packages = EmptyMap
    /\ pendingTypes = <<>>
    /\ processedTypes = {}
    /\ modules = EmptyMap
    /\ loadCalls = <<>>
    /\ extractCalls = <<>>
    /\ lastOp = NoOp
    /\ goMod = [ok |-> FALSE, Replace |-> EmptyMap]
    /\ genFiles = EmptyMap
    /\ genMods = EmptyMap

\* runFromConfigFile up to its call of the batch: pc = "batch" when the batch
\* is called, with the references of rewriterConfigs as its requests
RunFromConfigFile ==
    /\ pc = "config"
    /\ LET loaded == LoadConfig(config)
       IN  IF loaded.err # ""
           THEN /\ pc' = "failed"
                /\ pendingTypes' = <<>>
                /\ lastOp' = Op(loaded.err, NoRef, NoDecl)
           ELSE /\ pc' = "batch"
                /\ pendingTypes' =
                       [k \in 1..Len(rewriterConfigs(loaded.cfg.Packages)) |->
                           TypeRef(rewriterConfigs(loaded.cfg.Packages)[k].PackagePath,
                                   rewriterConfigs(loaded.cfg.Packages)[k].TypeName)]
                /\ lastOp' = Op("batch", NoRef, NoDecl)
    /\ UNCHANGED <<world, config, iterOrder, packages, processedTypes, modules,
                   loadCalls, extractCalls, goModDisk, goMod, genFiles, genMods>>

SpecConfig == InitConfig /\ [][RunFromConfigFile]_vars

\* C22: Config.Validate returns no error if and only if the output directory
\* is non-empty, there is at least one package entry, and every entry has a
\* non-empty package path and at least one type name; when it returns an
\* error, LoadConfig fails and the batch is not called.
C22_ValidateIffComplete ==
    (pc # "config" /\ config.state = "ok") =>
        LET c == config.cfg
            complete ==
                /\ c.Output # ""
                /\ Len(c.Packages) >= 1
                /\ \A i \in 1..Len(c.Packages) :
                        /\ c.Packages[i].Package # ""
                        /\ Len(c.Packages[i].Types) >= 1
        IN  /\ (Validate(c) = "") <=> complete
            /\ (pc = "batch") <=> complete
            /\ ~complete => pc = "failed" /\ pendingTypes = <<>>

\* a config whose only defect is a second entry without types was rejected
C22_Witness ==
    /\ pc = "failed"
    /\ config.state = "ok"
    /\ config.cfg.Output # ""
    /\ Len(config.cfg.Packages) = 2
    /\ config.cfg.Packages[1] = PackageEntry(PathP, <<"A">>)
    /\ config.cfg.Packages[2] = PackageEntry(PathP, <<>>)

\* C23: idempotence: a second run with the same request against the same
\* sources, under whatever order its map iterations take and starting from
\* the go.mod the first run left, succeeds like the first and generates the
\* same packages with the same imports and the same declarations.
C23_SecondRunSameOutput ==
    pc = "done" =>
        \A ord \in IterOrders(world) :
            LET second == driveLoop(
                    [packages |-> EmptyMap,
                     pendingTypes |-> <<TypeRef(config.PackagePath, config.TypeName)>>,
                     processedTypes |-> {}, modules |-> EmptyMap,
                     loadCalls |-> <<>>, extractCalls |-> <<>>], ord)
            IN  /\ ~second.err
                /\ generateOutput(second.r).files = genFiles
                /\ generateOutput(second.r).mods = genMods

\* the sibling types the fields of the struct expr name directly or through
\* a pointer: the types the package at pkgPath declares among the fields'
\* identifiers
SiblingFields(pkgPath, expr) ==
    IF expr.kind = "StructType"
    THEN {n \in {IF expr.Fields[i].Type.kind = "Ident" THEN expr.Fields[i].Type.Name
                 ELSE IF /\ expr.Fields[i].Type.kind = "StarExpr"
                         /\ expr.Fields[i].Type.X.kind = "Ident"
                 THEN expr.Fields[i].Type.X.Name
                 ELSE "" : i \in 1..Len(expr.Fields)} :
            n # "" /\ TypeRef(pkgPath, n) \in DeclaredTypes}
    ELSE {}

C25_WalkOnlyQueues ==
    /\ [][(pc = "loop" /\ lastOp'.op \in {"skip", "stdlib", "extract"}) =>
            LET ref == lastOp'.ref
            IN  /\ \/ loadCalls' = loadCalls
                   \/ /\ lastOp'.op = "extract"
                      /\ loadCalls' = Append(loadCalls, ref.PackagePath)
                /\ \A p \in DOMAIN packages' :
                        p # ref.PackagePath =>
                            /\ p \in DOMAIN packages
                            /\ packages'[p].Decls = packages[p].Decls
                /\ \A i \in 1..Len(pendingTypes') :
                        (/\ Occurrences(Tail(pendingTypes), pendingTypes'[i]) = 0
                         /\ pendingTypes'[i].PackagePath # ref.PackagePath
                         /\ pendingTypes'[i].PackagePath \notin DOMAIN packages)
                            => pendingTypes'[i].PackagePath \notin DOMAIN packages']_vars
    /\ [](\A i \in 1..Len(loadCalls) : \E j \in 1..Len(extractCalls) :
            extractCalls[j].PackagePath = loadCalls[i])

\* a declaration was extracted whose walk queued a reference to a package of
\* the source universe that has not been loaded
C25_Witness ==
    /\ lastOp.op = "extract"
    /\ pc = "loop"
    /\ \E i \in 1..Len(pendingTypes) :
            /\ pendingTypes[i].PackagePath # lastOp.ref.PackagePath
            /\ pendingTypes[i].PackagePath \in DOMAIN world
            /\ ~isStdlib(pendingTypes[i].PackagePath)
            /\ pendingTypes[i].PackagePath \notin DOMAIN packages
            /\ Occurrences(loadCalls, pendingTypes[i].PackagePath) = 0

Constituents(expr) ==
    LET Types(fields) == {fields[i].Type : i \in 1..Len(fields)}
    IN  CASE expr.kind = "StarExpr" -> {expr.X}
          [] expr.kind \in {"ArrayType", "Ellipsis"} -> {expr.Elt}
          [] expr.kind = "MapType" -> {expr.Key, expr.Value}
          [] expr.kind = "StructType" -> Types(expr.Fields)
          [] expr.kind = "InterfaceType" -> Types(expr.Methods)
          [] expr.kind = "FuncType" -> Types(expr.Params) \cup Types(expr.Results)
          [] expr.kind = "ChanType" -> {expr.Value}
          [] OTHER -> {}

\* C27: for a pointer, array or slice, map, struct, interface, function,
\* channel and variadic type, the references the walk yields are the union of
\* the references its constituents yield; a builtin identifier, the empty
\* interface and a form the walker does not recognize yield none; the walk of
\* an extracted declaration adds to the queue what its type yields.
C27_WalkIsUnionOfConstituents ==
    [][Extracts =>
        LET ref == lastOp'.ref
            P == ref.PackagePath
            type == WalkedSpec(ref).Type
            fresh == [packages |-> packages', pendingTypes |-> <<>>,
                      processedTypes |-> {}, modules |-> modules',
                      loadCalls |-> loadCalls', extractCalls |-> extractCalls']
            Yield(e) == Range(walkTypeForDeps(fresh, P, e, iterOrder).pendingTypes)
            Below(S) == UNION {Constituents(e) : e \in S}
            sub == {type} \cup Below({type}) \cup Below(Below({type}))
                          \cup Below(Below(Below({type})))
        IN  /\ \A e \in sub :
                    /\ e.kind \notin {"Ident", "SelectorExpr"} =>
                            Yield(e) = UNION {Yield(c) : c \in Constituents(e)}
                    /\ (e.kind = "Ident" /\ TypeRef(P, e.Name) \notin DeclaredTypes) =>
                            Yield(e) = {}
            /\ Range(pendingTypes') =
                   Range(Tail(pendingTypes))
                   \cup {x \in Yield(type) : String(x) \notin processedTypes}]_vars

\* an interface with an embedded type and a method was extracted, and the
\* references of both are in the queue
C27_Witness ==
    /\ lastOp.op = "extract"
    /\ pc = "loop"
    /\ WalkedSpec(lastOp.ref).Type.kind = "InterfaceType"
    /\ Len(WalkedSpec(lastOp.ref).Type.Methods) = 2
    /\ Range(pendingTypes) = {TypeRef(PathP, "B"), TypeRef(PathQ, "C")}

\* the references appended to the queue by the driver loop run from r to its
\* end, in the order of the appends, after those of log
RECURSIVE enqueueLog(_, _, _)
enqueueLog(r, ord, log) ==
    IF Len(r.pendingTypes) = 0 THEN log
    ELSE LET out == processNext(r, ord)
             grown == log \o SubSeq(out.r.pendingTypes, Len(r.pendingTypes),
                                    Len(out.r.pendingTypes))
         IN  IF out.err THEN grown ELSE enqueueLog(out.r, ord, grown)

\* C28: the pending queue is first-in, first-out: an iteration of the driver
\* loop takes the reference at the front and the walk appends at the back
\* without reordering what is pending; the references handed to extractType
\* are extracted in the order in which they were first enqueued, the root
\* request first.
C28_QueueIsFifo ==
    /\ [][(pc = "loop" /\ lastOp'.op \in {"skip", "stdlib", "extract"}) =>
            /\ Len(pendingTypes') >= Len(pendingTypes) - 1
            /\ SubSeq(pendingTypes', 1, Len(pendingTypes) - 1) = Tail(pendingTypes)
            /\ lastOp'.op = "extract" =>
                    extractCalls' = Append(extractCalls, pendingTypes[1])
            /\ lastOp'.op # "extract" => extractCalls' = extractCalls]_vars
    /\ [](pc \in {"update", "done", "failed"} =>
            LET log == enqueueLog(
                    [packages |-> EmptyMap, pendingTypes |-> <<RootRef>>,
                     processedTypes |-> {}, modules |-> EmptyMap,
                     loadCalls |-> <<>>, extractCalls |-> <<>>],
                    iterOrder, <<RootRef>>)
                First(x) == CHOOSE i \in 1..Len(log) :
                                log[i] = x /\ \A j \in 1..(i - 1) : log[j] # x
            IN  /\ \A i \in 1..Len(extractCalls) : Occurrences(log, extractCalls[i]) >= 1
                /\ \A i, j \in 1..Len(extractCalls) :
                        i < j => First(extractCalls[i]) < First(extractCalls[j])
                /\ Len(extractCalls) >= 1 => extractCalls[1] = RootRef)

\* a run extracted three references: the walk of the root enqueued two, and
\* they were extracted in the order of their enqueueing
C28_Witness ==
    /\ pc = "done"
    /\ Len(extractCalls) = 3
    /\ extractCalls[1] = RootRef
    /\ WalkedSpec(RootRef).Type.kind = "StructType"
    /\ Len(WalkedSpec(RootRef).Type.Fields) >= 3
    /\ extractCalls[2].PackagePath # extractCalls[3].PackagePath

\* C29: every loaded package is registered under exactly one module, the
\* module path the loader reports for it or, without module metadata, the
\* package path itself: its path is exactly once in that module's package
\* list and in no other list, and the lists hold loaded packages only.
C29_OnePackageOneModule ==
    /\ \A p \in DOMAIN packages :
            LET m == IF world[p].Module # "" THEN world[p].Module ELSE p
            IN  /\ m \in DOMAIN modules
                /\ packages[p].ModulePath = m
                /\ \A o \in DOMAIN modules :
                        Occurrences(modules[o].Packages, p) = IF o = m THEN 1 ELSE 0
    /\ \A o \in DOMAIN modules :
            /\ modules[o].Path = o
            /\ \A i \in 1..Len(modules[o].Packages) :
                    modules[o].Packages[i] \in DOMAIN packages

\* two modules are registered, and a package was requested again after its
\* load: two references of the same package were extracted
C29_Witness ==
    /\ Cardinality(DOMAIN modules) = 2
    /\ \E i, j \in 1..Len(extractCalls) :
            /\ i # j
            /\ extractCalls[i].PackagePath = extractCalls[j].PackagePath
    /\ Len(loadCalls) = 2

\* ------------------------------------------------------------------------
\* FindGoMod on its own: goModDisk holds the working directory (cwd, "" when
\* os.Getwd fails) and the go.mod files of the file system (files); goMod
\* holds what FindGoMod returns.

\* the loop of FindGoMod from directory dir on: [path, err]; os.Stat names
\* the file at "//go.mod" by "/go.mod"
RECURSIVE FindGoMod(_, _)
FindGoMod(dir, files) ==
    LET goModPath == dir \o "/go.mod"
        stat == IF HasPrefix(goModPath, "//")
                THEN SubSeq(goModPath, 2, Len(goModPath)) ELSE goModPath
        parent == SubSeq(dir, 1, LastIndex(dir, "/") - 1)
    IN  IF stat \in files THEN [path |-> goModPath, err |-> FALSE]
        ELSE IF parent = dir \/ parent = "" THEN [path |-> "", err |-> TRUE]
        ELSE FindGoMod(parent, files)

InitFind ==
    /\ world = EmptyMap
    /\ config = Config(PathP, "A")
    /\ iterOrder = <<>>
    /\ goModDisk \in [cwd : {"", "/", "/a", "/a/b", "/a/b/c", "/d"},
                      files : SUBSET {"/go.mod", "/a/go.mod", "/a/b/go.mod",
                                      "/a/b/c/go.mod", "/d/go.mod"}]
    /\ pc = "find"
    /\ packages = EmptyMap
    /\ pendingTypes = <<>>
    /\ processedTypes = {}
    /\ modules = EmptyMap
    /\ loadCalls = <<>>
    /\ extractCalls = <<>>
    /\ lastOp = NoOp
    /\ goMod = [path |-> "", err |-> FALSE]
    /\ genFiles = EmptyMap
    /\ genMods = EmptyMap

\* a call of FindGoMod: os.Getwd, then the loop
CallFindGoMod ==
    /\ pc = "find"
    /\ goMod' = IF goModDisk.cwd = "" THEN [path |-> "", err |-> TRUE]
                ELSE FindGoMod(goModDisk.cwd, goModDisk.files)
    /\ pc' = "returned"
    /\ lastOp' = Op("FindGoMod", NoRef, NoDecl)
    /\ UNCHANGED <<world, config, iterOrder, packages, pendingTypes, processedTypes,
                   modules, loadCalls, extractCalls, goModDisk, genFiles, genMods>>

SpecFind == InitFind /\ [][CallFindGoMod]_vars

\* C30: FindGoMod returns, for every absolute working directory, the go.mod
\* of the nearest directory that holds one among the working directory and
\* its ancestors up to and including the file system root, and an error only
\* if none of them holds one.
C30_FindsNearestManifest ==
    (pc = "returned" /\ goModDisk.cwd # "") =>
        LET cwd == goModDisk.cwd
            GoModOf(d) == IF d = "/" THEN "/go.mod" ELSE d \o "/go.mod"
            dirs == {cwd, "/"}
                    \cup {SubSeq(cwd, 1, i - 1) :
                            i \in {j \in 2..Len(cwd) : CharAt(cwd, j) = "/"}}
            holders == {d \in dirs : GoModOf(d) \in goModDisk.files}
            nearest == CHOOSE d \in holders : \A o \in holders : Len(o) <= Len(d)
            Same(p, q) == p = q \/ p = "/" \o q
        IN  IF holders = {} THEN goMod.err
            ELSE ~goMod.err /\ Same(goMod.path, GoModOf(nearest))


\* ------------------------------------------------------------------------
\* The single-package Rewriter (pkg/rewriter/rewriter.go): one call of
\* Rewrite on a universe and a configuration. The Rewriter's pkg,
\* neededDecls and neededImports are kept in `packages` under the configured
\* path, its packages.Load calls in loadCalls, the file it writes in
\* genFiles.

RECURSIVE walkType(_, _, _)
\* Rewriter.walkType and findAndCollectType: exprs are the expressions still
\* to be walked, in the order the recursion of the code visits them. The
\* SelectorExpr case looks the qualifier up in the package scope, where no
\* imported package name lives, and records nothing; the InterfaceType case
\* is empty.
walkType(neededDecls, pkg, exprs) ==
    IF Len(exprs) = 0 THEN neededDecls
    ELSE LET expr == Head(exprs)
             rest == Tail(exprs)
             FieldTypes(fields) == [i \in 1..Len(fields) |-> fields[i].Type]
         IN  CASE expr.kind = "Ident" ->
                    IF ScopeHasTypeName(pkg, expr.Name)
                       /\ expr.Name \notin DOMAIN neededDecls
                    THEN LET hit == findTypeSpec(pkg, expr.Name)
                         IN  walkType(
                                Put(neededDecls, expr.Name,
                                    [Name |-> expr.Name, Decl |-> hit.genDecl,
                                     File |-> hit.file, Comment |-> hit.genDecl.Doc]),
                                pkg, <<hit.typeSpec.Type>> \o rest)
                    ELSE walkType(neededDecls, pkg, rest)
               [] expr.kind = "StarExpr" -> walkType(neededDecls, pkg, <<expr.X>> \o rest)
               [] expr.kind = "ArrayType" -> walkType(neededDecls, pkg, <<expr.Elt>> \o rest)
               [] expr.kind = "MapType" ->
                    walkType(neededDecls, pkg, <<expr.Key, expr.Value>> \o rest)
               [] expr.kind = "StructType" ->
                    walkType(neededDecls, pkg, FieldTypes(expr.Fields) \o rest)
               [] expr.kind = "FuncType" ->
                    walkType(neededDecls, pkg,
                             FieldTypes(expr.Params) \o FieldTypes(expr.Results) \o rest)
               [] expr.kind = "ChanType" -> walkType(neededDecls, pkg, <<expr.Value>> \o rest)
               [] expr.kind = "Ellipsis" -> walkType(neededDecls, pkg, <<expr.Elt>> \o rest)
               [] OTHER -> walkType(neededDecls, pkg, rest)

\* Rewriter.collectDependencies with collectUsedImports
collectDependencies(pkg, typeName) ==
    IF ~ScopeHasTypeName(pkg, typeName)
    THEN [err |-> TRUE, neededDecls |-> EmptyMap, importNames |-> EmptyMap]
    ELSE LET neededDecls == walkType(EmptyMap, pkg, <<Ident(typeName)>>)
             sites == {s \in (1..Len(pkg.Syntax)) \X (1..MaxImports + 1) :
                            s[2] <= Len(pkg.Syntax[s[1]].Imports)}
             ImportAt(s) == pkg.Syntax[s[1]].Imports[s[2]]
             NameOf(imp) == IF imp.Name # "" THEN imp.Name ELSE Base(imp.Path)
             Later(a, b) == a[1] > b[1] \/ (a[1] = b[1] /\ a[2] >= b[2])
             pkgNameToPath ==
                [n \in {NameOf(ImportAt(s)) : s \in sites} |->
                    LET last == CHOOSE a \in {s \in sites : NameOf(ImportAt(s)) = n} :
                                    \A b \in {s \in sites : NameOf(ImportAt(s)) = n} :
                                        Later(a, b)
                    IN  ImportAt(last).Path]
             selectors ==
                UNION {UNION {{leaf \in TypeLeaves(neededDecls[n].Decl.Specs[i].Type) :
                                    /\ leaf.kind = "SelectorExpr"
                                    /\ leaf.X.kind = "Ident"
                                    /\ leaf.X.Name \in DOMAIN pkgNameToPath} :
                              i \in 1..Len(neededDecls[n].Decl.Specs)} :
                       n \in DOMAIN neededDecls}
             paths == {pkgNameToPath[sel.X.Name] : sel \in selectors}
         IN  [err |-> FALSE,
              neededDecls |-> neededDecls,
              \* neededImports[path] = ident.Name is written once per
              \* selector, in the iteration order of neededDecls: these are
              \* the names the entry of a path can end with
              importNames |->
                [path \in paths |->
                    {sel.X.Name : sel \in
                        {s \in selectors : pkgNameToPath[s.X.Name] = path}}]]

InitLegacy ==
    /\ \E sc \in Scenarios \cup SmallScenarios :
            /\ world = sc.world
            /\ config = sc.config
    /\ iterOrder = <<>>
    /\ goModDisk = [state |-> "missing", Replace |-> EmptyMap]
    /\ pc = "start"
    /\ packages = EmptyMap
    /\ pendingTypes = <<>>
    /\ processedTypes = {}
    /\ modules = EmptyMap
    /\ loadCalls = <<>>
    /\ extractCalls = <<>>
    /\ lastOp = NoOp
    /\ goMod = [ok |-> FALSE, Replace |-> EmptyMap]
    /\ genFiles = EmptyMap
    /\ genMods = EmptyMap

\* Rewriter.Rewrite: loadPackage, collectDependencies, generateOutput
Rewrite ==
    /\ pc = "start"
    /\ loadCalls' = <<config.PackagePath>>
    /\ lastOp' = Op("Rewrite", RootRef, NoDecl)
    /\ LET pkg == packagesLoad(config.PackagePath)
           deps == collectDependencies(pkg, config.TypeName)
       IN  IF pkg = NoPackage
           THEN /\ pc' = "failed"
                /\ UNCHANGED <<packages, genFiles>>
           ELSE IF deps.err
           THEN /\ pc' = "failed"
                /\ packages' = (config.PackagePath :>
                        [Pkg |-> pkg, Decls |-> EmptyMap, Imports |-> EmptyMap])
                /\ UNCHANGED genFiles
           ELSE \E neededImports \in
                    {f \in [DOMAIN deps.importNames ->
                                UNION {deps.importNames[p] : p \in DOMAIN deps.importNames}] :
                        \A p \in DOMAIN f : f[p] \in deps.importNames[p]} :
                /\ pc' = "done"
                /\ packages' = (config.PackagePath :>
                        [Pkg |-> pkg, Decls |-> deps.neededDecls,
                         Imports |-> neededImports])
                /\ genFiles' =
                    (PathJoin(PathJoin(config.OutputDir, pkg.Name), "types.go") :>
                        [Source |-> config.PackagePath,
                         Name |-> pkg.Name,
                         Imports |->
                            {ImportSpec(IF neededImports[path] # Base(path)
                                           /\ ~HasSuffix(path, "/" \o neededImports[path])
                                        THEN neededImports[path] ELSE "",
                                        path) : path \in DOMAIN neededImports},
                         Decls |-> [n \in DOMAIN deps.neededDecls |->
                                        deps.neededDecls[n].Decl]])
    /\ UNCHANGED <<world, config, iterOrder, pendingTypes, processedTypes, modules,
                   extractCalls, goModDisk, goMod, genMods>>

SpecLegacy == InitLegacy /\ [][Rewrite]_vars

\* C31: a call of Rewrite records the requested type and every named type
\* of the same package that is transitively reachable from it, loads no
\* package but the configured one, and fails without writing a file when
\* the requested type is not declared in the package.
C31_LegacyCollectsSamePackageClosure ==
    LET Step(S) == S \cup {tr \in UNION {GoRefs(x) : x \in S} :
                               tr.PackagePath = config.PackagePath}
        reachable == Step(Step(Step(Step({RootRef}))))
    IN  /\ Range(loadCalls) \subseteq {config.PackagePath}
        /\ pc = "done" =>
                /\ RootRef \in DeclaredTypes
                /\ {TypeRef(config.PackagePath, n) :
                        n \in DOMAIN packages[config.PackagePath].Decls} = reachable
                /\ DOMAIN genFiles # {}
        /\ (pc # "start" /\ RootRef \notin DeclaredTypes) =>
                pc = "failed" /\ genFiles = EmptyMap


\* ------------------------------------------------------------------------
\* C31..C38: properties of whole runs.

\* C32: a run of RewriteRecursive that fails in loading or extracting a
\* reference leaves the go.mod on disk as it was before the run, replace
\* directives included: in a run whose extraction fails (the runs that end
\* in pc = "failed") no step changes go.mod.
C32_FailureKeepsGoMod ==
    [][Extraction.err => goModDisk' = goModDisk]_vars


C34_NothingDroppedAtEmission ==
    ((pc = "loop" /\ Len(pendingTypes) = 0) \/ pc \in {"update", "done"}) =>
        /\ \A p \in DOMAIN packages :
            /\ DOMAIN packages[p].Decls # {}
            /\ \A path \in DOMAIN packages[p].Imports :
                    isStdlib(path) \/ path \in DOMAIN packages
        /\ pc \in {"update", "done"} =>
            /\ {genFiles[f].Source : f \in DOMAIN genFiles} = DOMAIN packages
            /\ \A f \in DOMAIN genFiles :
                    {imp.Path : imp \in genFiles[f].Imports}
                        = DOMAIN packages[genFiles[f].Source].Imports

\* a finished run with two loaded packages, one of which imports the other
\* and a standard-library package
C34_Witness ==
    /\ pc = "done"
    /\ Cardinality(DOMAIN packages) >= 2
    /\ \E p \in DOMAIN packages :
        /\ \E path \in DOMAIN packages[p].Imports : isStdlib(path)
        /\ \E path \in DOMAIN packages[p].Imports : path \in DOMAIN packages
        /\ \E f \in DOMAIN genFiles :
                genFiles[f].Source = p /\ Cardinality(genFiles[f].Imports) >= 2


\* C35: every generated file declares each type name recorded for its
\* package exactly once and declares no type that is not recorded, grouped
\* declarations of the source included.
C35_RecordedDeclaredOnce ==
    pc \in {"update", "done"} =>
        \A f \in DOMAIN genFiles :
            LET src == genFiles[f].Source
                recorded == DOMAIN packages[src].Decls
            IN  /\ \A n \in recorded : EmittedCount(TypeRef(src, n)) = 1
                /\ \A tr \in Emitted :
                        tr.PackagePath = src => tr.TypeName \in recorded


\* C36: a field of type alias.Name in an extracted declaration is resolved
\* to the path that the file of the declaration binds to alias: the path is
\* among the package's needed imports and, while the run has not failed, the
\* reference (path, Name) is queued or processed, also when another file of
\* the package binds alias to another path.
C36_AliasResolvedInDeclaringFile ==
    \A t \in TypeSites :
        (/\ pc # "failed"
         /\ t[1] \in DOMAIN packages
         /\ SiteSpec(t).Name \in DOMAIN packages[t[1]].Decls
         /\ packages[t[1]].Decls[SiteSpec(t).Name].File
                = world[t[1]].Syntax[t[2]].FileName) =>
            \A f \in SelectorFields(SiteSpec(t).Type) :
                \A path \in FileBinds(t, f.Type.X.Name) :
                    /\ path \in DOMAIN packages[t[1]].Imports
                    /\ \/ String(TypeRef(path, f.Type.Sel)) \in processedTypes
                       \/ TypeRef(path, f.Type.Sel) \in Range(pendingTypes)


\* C37: for every qualified identifier alias.Name in a declaration of a
\* generated file, the import block of that file binds alias to a path,
\* also when two files of the source import one path under two aliases and
\* when the alias is one that collectSourceImports discards as mangled.
C37_EmittedAliasesAreBound ==
    pc \in {"update", "done"} =>
        \A f \in DOMAIN genFiles : \A n \in DOMAIN genFiles[f].Decls :
            \A i \in 1..Len(genFiles[f].Decls[n].Specs) :
                \A leaf \in TypeLeaves(genFiles[f].Decls[n].Specs[i].Type) :
                    (leaf.kind = "SelectorExpr" /\ leaf.X.kind = "Ident") =>
                        \E imp \in genFiles[f].Imports :
                            leaf.X.Name =
                                IF imp.Name # "" THEN imp.Name
                                ELSE IF imp.Path \in DOMAIN world
                                THEN world[imp.Path].Name
                                ELSE Base(imp.Path)


\* C38: a run of RewriteRecursive that returns success has written the
\* generated file of the requested package, and that file declares the
\* requested type.
C38_SuccessEmitsRoot ==
    pc = "done" =>
        \E f \in DOMAIN genFiles :
            /\ genFiles[f].Source = config.PackagePath
            /\ \E n \in DOMAIN genFiles[f].Decls :
                \E i \in 1..Len(genFiles[f].Decls[n].Specs) :
                    genFiles[f].Decls[n].Specs[i].Name = config.TypeName

====
